---- MODULE Spec2Model ----
(***************************************************************************)
(* Model of tools/capture_screenshots.py: the screenshot-harness           *)
(* orchestration (main, run_instrumentation_once, the streaming loop of    *)
(* stream_instrumentation_output) and the session state HarnessContext.    *)
(*                                                                         *)
(* Text is modelled as sequences of one-character strings, so that strip,  *)
(* split and the package-name pattern are computed, not assumed.  A Python *)
(* Optional is a tuple of length 0 (None) or 1.  An output line is the     *)
(* record of what each regular expression of the code captures from it.    *)
(***************************************************************************)
EXTENDS Integers, Sequences, FiniteSets, TLC

VARIABLES
    args,                   \* the parsed command line (fixed for a run)
    pc,                     \* control location of main / run_instrumentation_once
    ctx,                    \* the HarnessContext of the current attempt
    queue,                  \* output_queue of stream_instrumentation_output
    started,                \* `started` of stream_instrumentation_output
    reader_done,            \* the reader thread has put the sentinel
    child,                  \* the instrumentation child process
    emitted,                \* number of lines the children of this run have written
    observed,               \* number of lines the consumer has observed in this attempt
    effects,                \* device-side effects of the handshake in this attempt
    return_code,            \* `return_code` of run_instrumentation_once
    exit_code,              \* the exit code run_instrumentation_once returned
    outcome,                \* which return statement ended the attempt
    virtualization,         \* _virtualization_unavailable() when resolution failed
    system_crash_attempts,  \* main
    auto_install_attempted, \* main
    last_exit_code,         \* main
    auto_installed,         \* result of main's last auto_install_debug_apks
    am_reachable,           \* result of the last wait_for_activity_manager
    attempts,               \* why each attempt of this run was started
    installs,               \* number of Gradle installs executed in this run
    main_result,            \* what main returned
    last_call,              \* SpecCtx, SpecCalls: the last call made
    produced,               \* SpecStream: the lines the child has written
    consumed,               \* SpecStream, SpecFlags: the lines the consumer has yielded
    read_failed             \* SpecStream: reading the child's output raised

vars == <<args, pc, ctx, queue, started, reader_done, child,
          emitted, observed, effects, return_code, exit_code, outcome,
          virtualization, system_crash_attempts, auto_install_attempted,
          last_exit_code, auto_installed, am_reachable, attempts, installs,
          main_result, last_call, produced, consumed, read_failed>>

\* what SpecStream records of the stream
streamTrace == <<produced, consumed, read_failed>>

-----------------------------------------------------------------------------
(* Bounds of the model *)

MaxLines == 3       \* lines the children of one run write in total
MaxPhaseEvents == 2 \* phase events one context of SpecCtx records
MaxPrints == 2      \* copies of one message SpecCtx lets a context print
MaxPolls == 2       \* polls wait_for_activity_manager fits before its deadline

(* Program constants *)

max_system_crash_retries == 1

-----------------------------------------------------------------------------
(* Optional values and text helpers *)

None == <<>>
Some(x) == <<x>>

Whitespace == {" "}

RECURSIVE lstrip(_)
lstrip(s) == IF s # <<>> /\ Head(s) \in Whitespace THEN lstrip(Tail(s)) ELSE s

RECURSIVE rstrip(_)
rstrip(s) ==
    IF s # <<>> /\ s[Len(s)] \in Whitespace
    THEN rstrip(SubSeq(s, 1, Len(s) - 1))
    ELSE s

strip(s) == rstrip(lstrip(s))

RECURSIVE split(_, _)
split(s, sep) ==
    IF \A i \in 1..Len(s) : s[i] # sep
    THEN <<s>>
    ELSE LET i == CHOOSE k \in 1..Len(s) :
                      s[k] = sep /\ \A j \in 1..(k - 1) : s[j] # sep
         IN  <<SubSeq(s, 1, i - 1)>> \o split(SubSeq(s, i + 1, Len(s)), sep)

Contains(s, ch) == \E i \in 1..Len(s) : s[i] = ch

EndsWith(s, suffix) ==
    /\ Len(suffix) <= Len(s)
    /\ SubSeq(s, Len(s) - Len(suffix) + 1, Len(s)) = suffix

\* re.escape(pattern).replace("\*", ".*") compiled as ^...$ and matched
RECURSIVE GlobMatch(_, _)
GlobMatch(p, s) ==
    IF p = <<>> THEN s = <<>>
    ELSE IF Head(p) = "*"
         THEN GlobMatch(Tail(p), s) \/ (s # <<>> /\ GlobMatch(p, Tail(s)))
         ELSE s # <<>> /\ Head(s) = Head(p) /\ GlobMatch(Tail(p), Tail(s))

-----------------------------------------------------------------------------
(* Package names *)

\* representatives of the characters [A-Za-z0-9._] of PACKAGE_NAME_PATTERN
PackageChars == {"a", "b", ".", "_"}

\* variant: the pattern admits "-" as well
PACKAGE_NAME_PATTERN_with_hyphen(value) ==
    value # <<>> /\ \A i \in 1..Len(value) : value[i] \in PackageChars \cup {"-"}

PACKAGE_NAME_PATTERN(value) ==
    value # <<>> /\ \A i \in 1..Len(value) : value[i] \in PackageChars

\* what `pm list packages` prints on the device, in order
PmListPackages == << <<"a", "b">>, <<"a", ".", "b">> >>

resolve_sanitized_package(pattern) ==
    LET matches == SelectSeq(PmListPackages, LAMBDA p : GlobMatch(pattern, p))
        pieces == split(pattern, "*")
        suffix == pieces[Len(pieces)]
        tailed == SelectSeq(matches, LAMBDA m : EndsWith(m, suffix))
    IN  IF matches = <<>> THEN None
        ELSE IF Len(matches) > 1 /\ suffix # <<>> /\ tailed # <<>>
             THEN Head(tailed)
             ELSE Head(matches)

normalize_package_name(candidate) ==
    LET value == strip(candidate)
        resolved == IF Contains(value, "*")
                    THEN resolve_sanitized_package(value)
                    ELSE None
        sanitized == SelectSeq(value, LAMBDA ch : ch \in PackageChars)
    IN  IF value = <<>> THEN None
        ELSE IF PACKAGE_NAME_PATTERN(value) THEN value
        ELSE IF resolved # None THEN resolved
        ELSE IF sanitized # <<>> /\ PACKAGE_NAME_PATTERN(sanitized) THEN sanitized
        ELSE None

-----------------------------------------------------------------------------
(* Instrumentation components: package "/" runner as text *)

\* str.partition(sep): the text before the first sep, whether sep occurs,
\* and the text after it
partition(s, sep) ==
    IF Contains(s, sep)
    THEN LET i == CHOOSE k \in 1..Len(s) :
                      s[k] = sep /\ \A j \in 1..(k - 1) : s[j] # sep
         IN  [head |-> SubSeq(s, 1, i - 1), separator |-> TRUE,
              tail |-> SubSeq(s, i + 1, Len(s))]
    ELSE [head |-> s, separator |-> FALSE, tail |-> <<>>]

\* the compiled pattern is kept as the glob it was made from; None without "*"
compile_wildcard_regex(pattern) ==
    IF Contains(pattern, "*") THEN Some(pattern) ELSE None

\* regex.search of the glob anchored at the end only
GlobSearchEnd(p, s) ==
    \E k \in 1..(Len(s) + 1) : GlobMatch(p, SubSeq(s, k, Len(s)))

\* the components `pm list instrumentation` prints, in order
extract_instrumentation_components(output) ==
    SelectSeq(output, LAMBDA candidate : candidate # <<>>)

\* `listing`: what the unscoped `pm list instrumentation` prints
resolve_sanitized_instrumentation_component(listing, pattern) ==
    LET matches == SelectSeq(extract_instrumentation_components(listing),
                             LAMBDA component : GlobMatch(pattern, component))
        suffix == IF Contains(pattern, "/") THEN partition(pattern, "/").tail
                  ELSE pattern
        tailed == SelectSeq(matches, LAMBDA m : GlobSearchEnd(suffix, m))
    IN  IF matches = <<>> THEN None
        ELSE IF Len(matches) = 1 THEN matches[1]
        ELSE IF suffix # <<>> /\ tailed # <<>> THEN Head(tailed)
        ELSE matches[1]

normalize_instrumentation_component(listing, component) ==
    LET parts == partition(component, "/")
        package == parts.head
        normalized_package == normalize_package_name(package)
        resolved == resolve_sanitized_instrumentation_component(listing, component)
    IN  IF package = <<>> THEN component
        ELSE IF normalized_package # None /\ normalized_package # package
        THEN IF parts.separator
             THEN normalized_package \o <<"/">> \o parts.tail
             ELSE normalized_package
        ELSE IF Contains(package, "*") /\ resolved # None THEN resolved
        ELSE component

prefer_requested_instrumentation_component(listing, requested_arg, resolved) ==
    LET resolved_package == partition(resolved, "/").head
        requested == strip(requested_arg)
        requested_normalized == normalize_instrumentation_component(listing, requested)
        requested_package == partition(requested_normalized, "/").head
    IN  IF resolved = <<>> THEN resolved
        ELSE IF PACKAGE_NAME_PATTERN(resolved_package)
                    /\ ~Contains(resolved_package, "*")
        THEN resolved
        ELSE IF requested = <<>> THEN resolved
        ELSE IF requested_package = <<>> \/ Contains(requested_package, "*")
        THEN resolved
        ELSE requested_normalized

expected_match_first(components, package, runner) ==
    IF package # <<>> /\ runner # <<>> THEN components[1] ELSE None

\* the first component of `components` that the first loop returns, or None
expected_match(components, package, runner) ==
    LET wildcard == Contains(package, "*") \/ Contains(runner, "*")
        expected == package \o <<"/">> \o runner
        hits == SelectSeq(components,
                          LAMBDA component :
                              IF wildcard THEN GlobMatch(expected, component)
                              ELSE component = expected)
    IN  IF package # <<>> /\ runner # <<>> /\ hits # <<>> THEN Head(hits) ELSE None

\* the first component of `components` that the second loop returns, or None
package_match(components, package, runner) ==
    LET package_regex == compile_wildcard_regex(package)
        runner_regex == compile_wildcard_regex(runner)
        hits == SelectSeq(components,
                    LAMBDA component :
                        LET parts == partition(component, "/")
                        IN  /\ IF package_regex # None
                               THEN GlobMatch(package, parts.head)
                               ELSE parts.head = package
                            /\ \/ runner = <<>>
                               \/ IF runner_regex # None
                                  THEN GlobMatch(runner, parts.tail)
                                  ELSE parts.tail = runner)
    IN  IF package # <<>> /\ hits # <<>> THEN Head(hits) ELSE None

\* variant: the first component discovered is not remembered
RECURSIVE resolve_queries_without_fallback(_, _, _, _)
resolve_queries_without_fallback(outputs, package, runner, fallback_component) ==
    IF outputs = <<>> THEN fallback_component
    ELSE LET components == extract_instrumentation_components(Head(outputs))
             expected == expected_match(components, package, runner)
             by_package == package_match(components, package, runner)
         IN  IF components = <<>>
             THEN resolve_queries_without_fallback(Tail(outputs), package, runner,
                                                   fallback_component)
             ELSE IF expected # None THEN expected
             ELSE IF by_package # None THEN by_package
             ELSE resolve_queries_without_fallback(Tail(outputs), package, runner,
                                                   fallback_component)

\* `outputs`: what the device prints for each query, in the order of the
\* queries; `fallback_component`: the first component seen so far
RECURSIVE resolve_queries(_, _, _, _)
resolve_queries(outputs, package, runner, fallback_component) ==
    IF outputs = <<>> THEN fallback_component
    ELSE LET components == extract_instrumentation_components(Head(outputs))
             expected == expected_match(components, package, runner)
             by_package == package_match(components, package, runner)
         IN  IF components = <<>>
             THEN resolve_queries(Tail(outputs), package, runner, fallback_component)
             ELSE IF expected # None THEN expected
             ELSE IF by_package # None THEN by_package
             ELSE resolve_queries(Tail(outputs), package, runner,
                                  IF fallback_component = None
                                  THEN components[1]
                                  ELSE fallback_component)

\* a device answers the query scoped by package with `scoped` and the
\* unscoped query with `listing`
resolve_instrumentation_component_once(device, package, runner) ==
    resolve_queries((IF package # <<>> THEN <<device.scoped>> ELSE <<>>)
                        \o <<device.listing>>,
                    package, runner, None)

\* resolve_instrumentation_component on text: `device` is what the device
\* lists before the install step and `device_after` what it lists after it
resolve_component(a, instrumentation, device, device_after) ==
    LET requested == strip(instrumentation)
        parts == partition(requested, "/")
        package == strip(parts.head)
        runner == strip(parts.tail)
        first == resolve_instrumentation_component_once(device, package, runner)
        second == resolve_instrumentation_component_once(device_after, package, runner)
    IN  IF first # None
        THEN prefer_requested_instrumentation_component(device.listing, requested,
                 normalize_instrumentation_component(device.listing, first))
        ELSE IF a.skip_auto_install THEN None
        ELSE IF second # None
        THEN prefer_requested_instrumentation_component(device_after.listing, requested,
                 normalize_instrumentation_component(device_after.listing, second))
        ELSE None

-----------------------------------------------------------------------------
(* Output lines: what the code's searches capture from a line *)

\* a line none of the searches matches
PlainLine ==
    [pkg |-> None,          \* group 1 of "Resolved screenshot harness package name: (.+)"
     ready |-> None,        \* group 1 of "Writing screenshot ready flag to (.+)"
     done |-> None,         \* group 1 of "completion signal at (.+)"
     crashed |-> FALSE,     \* contains "System has crashed"
     aborted |-> FALSE,     \* starts with "INSTRUMENTATION_ABORTED"
     proc |-> FALSE,        \* contains "Process crashed"
     missing |-> FALSE,     \* contains "Unable to find instrumentation info for"
     phase |-> None,        \* the payload after "HARNESS PHASE: ", as json.loads sees it
     testpoint |-> None]    \* the text after "HARNESS TESTPOINT: ", a marker
                            \* name being one element of the text

PackageLine(text) == [PlainLine EXCEPT !.pkg = Some(text)]
ReadyLine(text) == [PlainLine EXCEPT !.ready = Some(text)]
DoneLine(text) == [PlainLine EXCEPT !.done = Some(text)]
SystemCrashLine == [PlainLine EXCEPT !.crashed = TRUE, !.aborted = TRUE]
ProcessCrashLine == [PlainLine EXCEPT !.proc = TRUE]
MissingLine == [PlainLine EXCEPT !.missing = TRUE]

JsonInt(n) == [t |-> "int", n |-> n, s |-> <<>>]
JsonStr(s) == [t |-> "str", n |-> 0, s |-> s]
JsonNull == [t |-> "null", n |-> 0, s |-> <<>>]

\* a payload that is a JSON object; "" is a field that is absent, not a
\* string, or empty
PhaseObject(event, type, component, operation, attempt) ==
    [kind |-> "object", event |-> event, type |-> type, component |-> component,
     operation |-> operation, attempt |-> attempt]

\* a payload that is not JSON ("malformed") or a JSON value that is not an
\* object ("value": an array, a number, a string, true, false, null)
PhasePayload(kind) ==
    [kind |-> kind, event |-> "", type |-> "", component |-> "",
     operation |-> "", attempt |-> JsonNull]

PhaseLine(type, component, operation, attempt) ==
    [PlainLine EXCEPT !.phase = Some(PhaseObject("harness_phase", type, component,
                                                 operation, attempt))]

TestpointText(payload) == [PlainLine EXCEPT !.testpoint = Some(payload)]

\* "HARNESS TESTPOINT: <label>" or "HARNESS TESTPOINT: <label>: <detail>"
TestpointLine(label, detail) ==
    TestpointText(IF detail = None THEN <<label>>
                  ELSE <<label, ":", " ">> \o detail[1])

-----------------------------------------------------------------------------
(* Phase events and testpoints *)

Digits == {"0", "1", "2"}
DigitValue(ch) == CASE ch = "0" -> 0 [] ch = "1" -> 1 [] OTHER -> 2

RECURSIVE ParseDigits(_, _)
ParseDigits(s, acc) ==
    IF s = <<>> THEN acc ELSE ParseDigits(Tail(s), 10 * acc + DigitValue(Head(s)))

coerce_int(value) ==
    IF value.t = "int" THEN Some(value.n)
    ELSE IF value.t = "str"
         THEN LET text == strip(value.s)
              IN  IF text # <<>> /\ \A i \in 1..Len(text) : text[i] \in Digits
                  THEN Some(ParseDigits(text, 0))
                  ELSE None
         ELSE None

\* whether parse_phase_event raises instead of returning: json.loads returned
\* a value without a `get` method
parse_phase_event_raises(line) ==
    line.phase # None /\ line.phase[1].kind = "value"

\* what parse_phase_event returns when it returns
parse_phase_event(line) ==
    IF line.phase = None THEN None
    ELSE LET data == line.phase[1]
             attempt == coerce_int(data.attempt)
         IN  IF data.kind # "object" THEN None
             ELSE IF data.event # "harness_phase" THEN None
             ELSE IF data.type = "" \/ data.component = "" \/ data.operation = ""
                  THEN None
             ELSE IF attempt = None THEN None
             ELSE Some([type |-> data.type, component |-> data.component,
                        operation |-> data.operation, attempt |-> attempt[1]])

HarnessTestPoint ==
    {"pre_initialization", "cache_ready", "ui_loaded", "ready_for_screenshot",
     "error_signaled"}

\* variant: every label is taken for a marker
parse_testpoint_any_label(line) ==
    IF line.testpoint = None THEN None
    ELSE LET payload == strip(line.testpoint[1])
             parts == partition(payload, ":")
             label == strip(parts.head)
             detail == IF strip(parts.tail) = <<>> THEN None
                       ELSE Some(strip(parts.tail))
         IN  IF payload = <<>> \/ label = <<>> THEN None
             ELSE Some(<<label[1], detail>>)

\* Some(<<point, detail>>) with detail None or Some(text), or None
parse_testpoint(line) ==
    IF line.testpoint = None THEN None
    ELSE LET payload == strip(line.testpoint[1])
             parts == partition(payload, ":")
             label == strip(parts.head)
             detail == IF strip(parts.tail) = <<>> THEN None
                       ELSE Some(strip(parts.tail))
         IN  IF payload = <<>> THEN None
             ELSE IF Len(label) = 1 /\ label[1] \in HarnessTestPoint
             THEN Some(<<label[1], detail>>)
             ELSE None

\* TestPointDispatcher.register and register_any, through the context
on_testpoint(c, point, callback) ==
    [c EXCEPT !.testpoint_callbacks =
                  Append(@, [point |-> point, callback |-> callback])]

on_any_testpoint(c, callback) ==
    [c EXCEPT !.testpoint_any_callbacks = Append(@, callback)]

\* the callbacks TestPointDispatcher.dispatch calls for `point`, in order
dispatch_notified(c, point) ==
    LET registered == SelectSeq(c.testpoint_callbacks, LAMBDA r : r.point = point)
    IN  [i \in 1..Len(registered) |-> registered[i].callback]
            \o c.testpoint_any_callbacks

dispatch(c, point, detail) ==
    [c EXCEPT !.testpoint_events = Append(@, <<point, detail>>)]

-----------------------------------------------------------------------------
(* HarnessContext *)

NoPrints == [crash |-> 0, missing |-> 0, phase |-> 0, pkgwarn |-> 0]

normalize_package(candidate) ==
    LET value == strip(candidate)
    IN  IF value = <<>> THEN None ELSE normalize_package_name(value)

\* variant: a candidate that cannot be normalized clears the package
maybe_set_package_clearing(c, candidate, suppress_warning) ==
    LET normalized == normalize_package(candidate)
        cleared == [c EXCEPT !.package = None]
    IN  IF normalized # None
        THEN [c EXCEPT !.package = normalized,
                       !.candidate_packages = @ \cup {normalized}]
        ELSE IF ~suppress_warning /\ ~c.sanitized_package_warning_emitted
             THEN [cleared EXCEPT !.printed.pkgwarn = @ + 1,
                                  !.sanitized_package_warning_emitted = TRUE]
             ELSE cleared

maybe_set_package(c, candidate, suppress_warning) ==
    LET normalized == normalize_package(candidate)
    IN  IF normalized # None
        THEN [c EXCEPT !.package = normalized,
                       !.candidate_packages = @ \cup {normalized}]
        ELSE IF ~suppress_warning /\ ~c.sanitized_package_warning_emitted
             THEN [c EXCEPT !.printed.pkgwarn = @ + 1,
                            !.sanitized_package_warning_emitted = TRUE]
             ELSE c

HarnessContext(fallback_package) ==
    LET fresh == [package |-> None,
                  ready_flags |-> <<>>,
                  done_flags |-> <<>>,
                  capture_completed |-> FALSE,
                  system_crash_detected |-> FALSE,
                  process_crash_detected |-> FALSE,
                  missing_instrumentation_detected |-> FALSE,
                  sanitized_package_warning_emitted |-> FALSE,
                  system_crash_guidance_emitted |-> FALSE,
                  missing_instrumentation_guidance_emitted |-> FALSE,
                  testpoint_events |-> <<>>,
                  testpoint_callbacks |-> <<>>,
                  testpoint_any_callbacks |-> <<>>,
                  candidate_packages |-> {},
                  phase_events |-> <<>>,
                  phase_attempt_events |-> <<>>,
                  phase_guidance_emitted |-> FALSE,
                  phase_timeline |-> <<>>,
                  printed |-> NoPrints]
    IN  IF fallback_package # None
        THEN maybe_set_package(fresh, fallback_package, TRUE)
        ELSE fresh

\* variant: the groups are keyed by component and operation only
handle_phase_event_by_operation(c, event) ==
    LET key == <<event.component, event.operation, 0>>
        groups == c.phase_attempt_events
        known == \E i \in 1..Len(groups) : groups[i].key = key
        added == IF known
                 THEN [i \in 1..Len(groups) |->
                          IF groups[i].key = key
                          THEN [groups[i] EXCEPT !.events = Append(@, event)]
                          ELSE groups[i]]
                 ELSE Append(groups, [key |-> key, events |-> <<event>>])
    IN  [c EXCEPT !.phase_events = Append(@, event),
                  !.phase_attempt_events = added]

\* dict.setdefault(key, []).append(event); a dict keeps its keys in insertion order
handle_phase_event(c, event) ==
    LET key == <<event.component, event.operation, event.attempt>>
        groups == c.phase_attempt_events
        known == \E i \in 1..Len(groups) : groups[i].key = key
        added == IF known
                 THEN [i \in 1..Len(groups) |->
                          IF groups[i].key = key
                          THEN [groups[i] EXCEPT !.events = Append(@, event)]
                          ELSE groups[i]]
                 ELSE Append(groups, [key |-> key, events |-> <<event>>])
    IN  [c EXCEPT !.phase_events = Append(@, event),
                  !.phase_attempt_events = added]

\* the context after observe_line, whether it returned or parse_phase_event
\* raised: an exception leaves the statements after it unexecuted
observe_line(c, line) ==
    LET parsed == parse_testpoint(line)
        c1 == IF parsed # None THEN dispatch(c, parsed[1][1], parsed[1][2]) ELSE c
        phase_event == parse_phase_event(line)
        c2 == IF phase_event # None THEN handle_phase_event(c1, phase_event[1]) ELSE c1
    IN  IF parse_phase_event_raises(line) THEN c1
        ELSE [c2 EXCEPT
                !.system_crash_detected = @ \/ line.crashed
                                            \/ (line.aborted /\ line.crashed),
                !.process_crash_detected = @ \/ line.proc,
                !.missing_instrumentation_detected = @ \/ line.missing]

\* the callbacks observe_line notifies on `line`, in order
observe_line_notified(c, line) ==
    IF parse_testpoint(line) # None
    THEN dispatch_notified(c, parse_testpoint(line)[1][1])
    ELSE <<>>

\* whether observe_line raises instead of returning
observe_line_raises(c, line) == parse_phase_event_raises(line)

\* variant: the guidance does not remember that it was printed
maybe_emit_system_crash_guidance_unguarded(c) ==
    IF ~c.system_crash_detected THEN c
    ELSE [c EXCEPT !.system_crash_guidance_emitted = TRUE,
                   !.printed.crash = @ + 1]

maybe_emit_system_crash_guidance(c) ==
    IF ~c.system_crash_detected \/ c.system_crash_guidance_emitted THEN c
    ELSE [c EXCEPT !.printed.crash = @ + 1,
                   !.system_crash_guidance_emitted = TRUE]

maybe_emit_missing_instrumentation_guidance(c) ==
    IF ~c.missing_instrumentation_detected
          \/ c.missing_instrumentation_guidance_emitted
    THEN c
    ELSE [c EXCEPT !.printed.missing = @ + 1,
                   !.missing_instrumentation_guidance_emitted = TRUE]

\* the component and operation names of the model, as Python orders strings
SortedNames == <<"Foo", "bar", "baz">>

NameRank(name) == CHOOSE i \in 1..Len(SortedNames) : SortedNames[i] = name

\* (component, operation, attempt) tuples as sorted() compares them
key_before(a, b) ==
    \/ NameRank(a[1]) < NameRank(b[1])
    \/ a[1] = b[1] /\ NameRank(a[2]) < NameRank(b[2])
    \/ a[1] = b[1] /\ a[2] = b[2] /\ a[3] < b[3]

\* `group` put into the sorted `groups`, after the groups not greater than it
RECURSIVE insert_group(_, _)
insert_group(groups, group) ==
    IF groups = <<>> THEN <<group>>
    ELSE IF key_before(group.key, Head(groups).key) THEN <<group>> \o groups
    ELSE <<Head(groups)>> \o insert_group(Tail(groups), group)

\* sorted(self._phase_attempt_events.items(), key=...)
RECURSIVE sorted_groups(_)
sorted_groups(groups) ==
    IF groups = <<>> THEN <<>>
    ELSE insert_group(sorted_groups(SubSeq(groups, 1, Len(groups) - 1)),
                      groups[Len(groups)])

\* variant: the timelines are printed in the order the dict holds the groups
maybe_emit_phase_guidance_first_seen(c) ==
    IF c.phase_guidance_emitted \/ c.phase_attempt_events = <<>> THEN c
    ELSE [c EXCEPT !.printed.phase = @ + 1,
                   !.phase_timeline =
                       [i \in 1..Len(c.phase_attempt_events) |->
                           c.phase_attempt_events[i].key],
                   !.phase_guidance_emitted = TRUE]

\* phase_timeline: the keys of the "<component>.<operation> attempt <n>"
\* lines, in the order printed
maybe_emit_phase_guidance(c) ==
    IF c.phase_guidance_emitted \/ c.phase_attempt_events = <<>> THEN c
    ELSE LET ordered == sorted_groups(c.phase_attempt_events)
         IN  [c EXCEPT !.printed.phase = @ + 1,
                       !.phase_timeline = [i \in 1..Len(ordered) |-> ordered[i].key],
                       !.phase_guidance_emitted = TRUE]

\* variant: every announced path is appended
maybe_collect_ready_flag_always(c, line) ==
    IF line.ready = None THEN c
    ELSE LET path == strip(line.ready[1])
         IN  IF path # <<>>
             THEN [c EXCEPT !.ready_flags = Append(@, path)]
             ELSE c

maybe_collect_ready_flag(c, line) ==
    IF line.ready = None THEN c
    ELSE LET path == strip(line.ready[1])
         IN  IF path # <<>> /\ \A i \in 1..Len(c.ready_flags) : c.ready_flags[i] # path
             THEN [c EXCEPT !.ready_flags = Append(@, path)]
             ELSE c

\* variant: the announced paths are added to the known ones
maybe_collect_done_flags_extend(c, line) ==
    IF line.done = None THEN c
    ELSE LET raw == split(line.done[1], ",")
             candidates == [i \in 1..Len(raw) |-> strip(raw[i])]
         IN  [c EXCEPT !.done_flags =
                  @ \o SelectSeq(candidates, LAMBDA x : x # <<>>)]

\* variant: a line without an announcement forgets the done flags
maybe_collect_done_flags_or_reset(c, line) ==
    IF line.done = None THEN [c EXCEPT !.done_flags = <<>>]
    ELSE LET raw == split(line.done[1], ",")
             candidates == [i \in 1..Len(raw) |-> strip(raw[i])]
         IN  [c EXCEPT !.done_flags = SelectSeq(candidates, LAMBDA x : x # <<>>)]

maybe_collect_done_flags(c, line) ==
    IF line.done = None THEN c
    ELSE LET raw == split(line.done[1], ",")
             candidates == [i \in 1..Len(raw) |-> strip(raw[i])]
         IN  [c EXCEPT !.done_flags = SelectSeq(candidates, LAMBDA x : x # <<>>)]

maybe_collect_package(c, line) ==
    IF line.pkg = None THEN c
    ELSE LET candidate == strip(line.pkg[1])
             c1 == maybe_set_package(c, candidate, FALSE)
         IN  IF candidate = <<>> THEN c
             ELSE IF normalize_package(candidate) # None THEN c1
             ELSE IF ~c1.sanitized_package_warning_emitted
                  THEN [c1 EXCEPT !.printed.pkgwarn = @ + 1,
                                  !.sanitized_package_warning_emitted = TRUE]
                  ELSE c1

-----------------------------------------------------------------------------
(* sanitize_cache_name *)

SAFE_PUNCTUATION == {".", "-", "_"}

\* str.isalnum on the characters of the model
isalnum(ch) ==
    ch \in {"a", "D", "0", "1", "2", "d", "o", "c", "u", "m", "e", "n", "t"}

\* re.sub(ch + "+", ch, s): runs of ch become one ch
RECURSIVE collapse(_, _)
collapse(s, ch) ==
    IF Len(s) < 2 THEN s
    ELSE IF s[1] = ch /\ s[2] = ch THEN collapse(Tail(s), ch)
    ELSE <<s[1]>> \o collapse(Tail(s), ch)

\* str.strip(chars)
RECURSIVE strip_chars(_, _)
strip_chars(s, chars) ==
    IF s = <<>> THEN s
    ELSE IF s[1] \in chars THEN strip_chars(Tail(s), chars)
    ELSE IF s[Len(s)] \in chars THEN strip_chars(SubSeq(s, 1, Len(s) - 1), chars)
    ELSE s

\* variant: the ends are stripped before the illegal characters are mapped
sanitize_strip_first(value) ==
    IF value = <<>> THEN <<>>
    ELSE LET stripped == strip_chars(value, {"_", "."})
             mapped == [i \in 1..Len(stripped) |->
                           IF isalnum(stripped[i]) \/ stripped[i] \in SAFE_PUNCTUATION
                           THEN stripped[i] ELSE "_"]
         IN  collapse(collapse(mapped, "_"), ".")

sanitize(value) ==
    IF value = <<>> THEN <<>>
    ELSE LET mapped == [i \in 1..Len(value) |->
                           IF isalnum(value[i]) \/ value[i] \in SAFE_PUNCTUATION
                           THEN value[i] ELSE "_"]
         IN  strip_chars(collapse(collapse(mapped, "_"), "."), {"_", "."})

Document == <<"d", "o", "c", "u", "m", "e", "n", "t">>

sanitize_cache_name(value, fallback) ==
    LET sanitized == sanitize(strip(value))
    IN  IF sanitized # <<>> THEN sanitized
        ELSE IF fallback # None /\ fallback[1] # <<>>
                  /\ sanitize(strip(fallback[1])) # <<>>
        THEN sanitize(strip(fallback[1]))
        ELSE Document

-----------------------------------------------------------------------------
(* The capture handshake *)

\* what `run-as <package> cat <flag>` gives: kind "error" is a failed command,
\* "empty" blank output, "object" a JSON object with the fields below (None
\* when absent), "malformed" text that is not JSON, "value" a JSON value that
\* is not an object (a list, a number, a string, true, false, null)
CatOutput(kind, sanitizedDocumentId, documentId, pageNumber, pageIndex) ==
    [kind |-> kind, sanitizedDocumentId |-> sanitizedDocumentId,
     documentId |-> documentId, pageNumber |-> pageNumber, pageIndex |-> pageIndex]

DocPayload(documentId, pageIndex) ==
    CatOutput("object", None, Some(documentId), None, Some(pageIndex))

CatResults ==
    {CatOutput("error", None, None, None, None),
     CatOutput("empty", None, None, None, None),
     DocPayload(<<"D", " ", "1">>, 0),
     CatOutput("malformed", None, None, None, None)}

\* the kinds of output that are a payload
Payloads == {"object", "malformed", "value"}

Range(seq) == {seq[i] : i \in 1..Len(seq)}

\* the device as the handshake of one loop iteration finds it
DeviceStates(c) ==
    [cat : [Range(c.ready_flags) -> CatResults],
     screencap : BOOLEAN,
     truncate : [Range(c.done_flags) -> BOOLEAN],
     echo : [Range(c.done_flags) -> BOOLEAN]]

\* any device state, for an iteration that does not reach the handshake
UntouchedDevice ==
    [cat |-> <<>>, screencap |-> TRUE, truncate |-> <<>>, echo |-> <<>>]

\* variant: a failed read ends the search
RECURSIVE first_payload_until_failure(_, _)
first_payload_until_failure(flags, cat) ==
    IF flags = <<>> THEN None
    ELSE IF cat[Head(flags)].kind \in Payloads THEN Some(cat[Head(flags)])
    ELSE IF cat[Head(flags)].kind = "error" THEN None
    ELSE first_payload_until_failure(Tail(flags), cat)

RECURSIVE first_payload(_, _)
first_payload(flags, cat) ==
    IF flags = <<>> THEN None
    ELSE IF cat[Head(flags)].kind \in Payloads THEN Some(cat[Head(flags)])
    ELSE first_payload(Tail(flags), cat)

read_ready_payload(c, cat) ==
    IF c.package = None \/ c.ready_flags = <<>> THEN None
    ELSE first_payload(c.ready_flags, cat)

DecimalDigits == <<"0", "1", "2", "3", "4", "5", "6", "7", "8", "9">>

\* f"{n:04d}" for 0 <= n <= 9999
page_04d(n) ==
    <<DecimalDigits[((n \div 1000) % 10) + 1], DecimalDigits[((n \div 100) % 10) + 1],
      DecimalDigits[((n \div 10) % 10) + 1], DecimalDigits[(n % 10) + 1]>>

\* a or b, for optional strings: the first that is present and not empty
first_truthy(a, b) ==
    IF a # None /\ a[1] # <<>> THEN a ELSE b

\* variant: the page index is used as the page number
screenshot_file_name_zero_based(payload) ==
    LET document_id == first_truthy(payload.sanitizedDocumentId,
                           first_truthy(payload.documentId, Some(Document)))[1]
        fallback == IF payload.documentId = None THEN Document
                    ELSE payload.documentId[1]
        page_index == IF payload.pageIndex = None THEN 0 ELSE payload.pageIndex[1]
    IN  sanitize_cache_name(document_id, Some(fallback))
            \o <<"_", "p", "a", "g", "e">> \o page_04d(page_index)
            \o <<".", "p", "n", "g">>

\* file_name of capture_screenshot; a payload that is not JSON is read as an
\* object without these fields
screenshot_file_name(payload) ==
    LET document_id == first_truthy(payload.sanitizedDocumentId,
                           first_truthy(payload.documentId, Some(Document)))[1]
        fallback == IF payload.documentId = None THEN Document
                    ELSE payload.documentId[1]
        page_index == IF payload.pageIndex = None THEN 0 ELSE payload.pageIndex[1]
        page_number == IF payload.pageNumber # None /\ payload.pageNumber[1] # 0
                       THEN payload.pageNumber[1]
                       ELSE page_index + 1
    IN  sanitize_cache_name(document_id, Some(fallback))
            \o <<"_", "p", "a", "g", "e">> \o page_04d(page_number)
            \o <<".", "p", "n", "g">>

\* Some(name of the file written), or None when it raises: AttributeError at
\* the first data.get when json.loads returned a value that is not an object,
\* CalledProcessError when adb screencap fails
capture_screenshot(payload, screencap) ==
    IF payload.kind = "value" THEN None
    ELSE IF screencap THEN Some(screenshot_file_name(payload))
    ELSE None

RECURSIVE signal_flags(_, _, _)
signal_flags(flags, truncate, echo) ==
    IF flags = <<>> THEN [written |-> <<>>, raised |-> FALSE]
    ELSE LET flag == Head(flags)
             rest == signal_flags(Tail(flags), truncate, echo)
         IN  IF truncate[flag]
             THEN [written |-> <<[flag |-> flag, how |-> "truncate"]>> \o rest.written,
                   raised |-> rest.raised]
             ELSE IF echo[flag]
             THEN [written |-> <<[flag |-> flag, how |-> "echo"]>> \o rest.written,
                   raised |-> rest.raised]
             ELSE [written |-> <<>>, raised |-> TRUE]

signal_completion(c, truncate, echo) ==
    IF c.package = None \/ c.done_flags = <<>>
    THEN [written |-> <<>>, raised |-> FALSE]
    ELSE signal_flags(c.done_flags, truncate, echo)

\* reads: each call of read_ready_payload, with the number of the line after
\* which it was made and what it returned; shots: the screenshots written;
\* signals: the done flags written; diagnostics: the collectors that ran
NoEffects == [reads |-> <<>>, shots |-> <<>>, signals |-> <<>>, diagnostics |-> <<>>]

\* variant: the done flags are not waited for
handshake_ready_without_done(c) ==
    /\ ~c.capture_completed
    /\ c.package # None
    /\ c.ready_flags # <<>>

\* variant: the completed capture is not remembered
handshake_ready_again(c) ==
    /\ c.package # None
    /\ c.ready_flags # <<>>
    /\ c.done_flags # <<>>

\* the condition of the `if` of the streaming loop
handshake_ready(c) ==
    /\ ~c.capture_completed
    /\ c.package # None
    /\ c.ready_flags # <<>>
    /\ c.done_flags # <<>>

\* variant: the done flags are signalled before the screenshot is taken
capture_handshake_signal_first(c, eff, dev, line_no) ==
    IF ~handshake_ready(c)
    THEN [ctx |-> c, effects |-> eff, raised |-> FALSE]
    ELSE LET payload == read_ready_payload(c, dev.cat)
             eff1 == [eff EXCEPT !.reads =
                         Append(@, [line |-> line_no, payload |-> payload])]
         IN  IF payload = None
             THEN [ctx |-> c, effects |-> eff1, raised |-> FALSE]
             ELSE LET shot == capture_screenshot(payload[1], dev.screencap)
                      sig == signal_completion(c, dev.truncate, dev.echo)
                      eff2 == [eff1 EXCEPT !.signals = @ \o sig.written]
                      eff3 == [eff2 EXCEPT !.shots = @ \o shot]
                  IN  IF sig.raised
                      THEN [ctx |-> c, effects |-> eff2, raised |-> TRUE]
                      ELSE IF shot = None
                      THEN [ctx |-> c, effects |-> eff2, raised |-> TRUE]
                      ELSE [ctx |-> [c EXCEPT !.capture_completed = TRUE],
                            effects |-> eff3, raised |-> FALSE]

\* the body of the `if` of the streaming loop, after the three collectors
capture_handshake(c, eff, dev, line_no) ==
    IF ~handshake_ready(c)
    THEN [ctx |-> c, effects |-> eff, raised |-> FALSE]
    ELSE LET payload == read_ready_payload(c, dev.cat)
             eff1 == [eff EXCEPT !.reads =
                         Append(@, [line |-> line_no, payload |-> payload])]
         IN  IF payload = None
             THEN [ctx |-> c, effects |-> eff1, raised |-> FALSE]
             ELSE LET shot == capture_screenshot(payload[1], dev.screencap)
                      sig == signal_completion(c, dev.truncate, dev.echo)
                      eff2 == [eff1 EXCEPT !.shots = @ \o shot,
                                           !.signals = @ \o sig.written]
                  IN  IF shot = None
                      THEN [ctx |-> c, effects |-> eff1, raised |-> TRUE]
                      ELSE IF sig.raised
                      THEN [ctx |-> c, effects |-> eff2, raised |-> TRUE]
                      ELSE [ctx |-> [c EXCEPT !.capture_completed = TRUE],
                            effects |-> eff2, raised |-> FALSE]

-----------------------------------------------------------------------------
(* Resolution, installation and launch *)

InstallOutcomes == {"no-wrapper", "failed", "ok"}

auto_install_debug_apks(a, gradle) ==
    IF a.skip_auto_install THEN [ok |-> FALSE, ran |-> FALSE]
    ELSE IF gradle = "no-wrapper" THEN [ok |-> FALSE, ran |-> FALSE]
    ELSE [ok |-> gradle = "ok", ran |-> TRUE]

\* `listed`, `listed_after`: whether the device lists an instrumentation
\* component before and after the install step
resolve_instrumentation_component(a, listed, gradle, listed_after) ==
    IF listed THEN [found |-> TRUE, installs |-> 0]
    ELSE IF a.skip_auto_install THEN [found |-> FALSE, installs |-> 0]
    ELSE [found |-> listed_after,
          installs |-> IF auto_install_debug_apks(a, gradle).ran THEN 1 ELSE 0]

ComponentPackage == <<"a", "b">>

add_candidate_package(c, candidate) ==
    LET normalized == normalize_package(candidate)
    IN  IF normalized # None
        THEN [c EXCEPT !.candidate_packages = @ \cup {normalized}]
        ELSE c

register_instrumentation_component(c, package) ==
    IF strip(package) # <<>> THEN add_candidate_package(c, strip(package)) ELSE c

\* what derive_fallback_package returns: a testPackageName extra or the
\* component's package, which may or may not be a valid package name
FallbackPackages == {<<"a">>, <<"?">>}

LaunchEnvs ==
    [listed : BOOLEAN, gradle : InstallOutcomes, listed_after : BOOLEAN,
     virtualization : BOOLEAN, fallback : FallbackPackages,
     target_installed : BOOLEAN, popen : BOOLEAN]

\* variant: the launched attempt goes on with the session of the previous one
launch_attempt_same_session(a, env) ==
    LET res == resolve_instrumentation_component(a, env.listed, env.gradle,
                                                 env.listed_after)
        live == register_instrumentation_component(ctx, ComponentPackage)
    IN  IF ~a.extra_arg_ok
        THEN [launched |-> FALSE, outcome |-> "invalid-extra-arg",
              ctx |-> HarnessContext(None), installs |-> 0,
              virtualization |-> FALSE]
        ELSE IF ~res.found
        THEN [launched |-> FALSE, outcome |-> "resolution-failure",
              ctx |-> HarnessContext(env.fallback), installs |-> res.installs,
              virtualization |-> env.virtualization]
        ELSE IF ~env.target_installed
        THEN [launched |-> FALSE, outcome |-> "target-not-installed",
              ctx |-> HarnessContext(env.fallback), installs |-> res.installs,
              virtualization |-> FALSE]
        ELSE IF ~env.popen
        THEN [launched |-> FALSE, outcome |-> "launch-failure",
              ctx |-> live, installs |-> res.installs, virtualization |-> FALSE]
        ELSE [launched |-> TRUE, outcome |-> "none",
              ctx |-> live, installs |-> res.installs, virtualization |-> FALSE]

\* run_instrumentation_once up to the start of the streaming loop
launch_attempt(a, env) ==
    LET res == resolve_instrumentation_component(a, env.listed, env.gradle,
                                                 env.listed_after)
        live == register_instrumentation_component(HarnessContext(env.fallback),
                                                   ComponentPackage)
    IN  IF ~a.extra_arg_ok
        THEN [launched |-> FALSE, outcome |-> "invalid-extra-arg",
              ctx |-> HarnessContext(None), installs |-> 0,
              virtualization |-> FALSE]
        ELSE IF ~res.found
        THEN [launched |-> FALSE, outcome |-> "resolution-failure",
              ctx |-> HarnessContext(env.fallback), installs |-> res.installs,
              virtualization |-> env.virtualization]
        ELSE IF ~env.target_installed
        THEN [launched |-> FALSE, outcome |-> "target-not-installed",
              ctx |-> HarnessContext(env.fallback), installs |-> res.installs,
              virtualization |-> FALSE]
        ELSE IF ~env.popen
        THEN [launched |-> FALSE, outcome |-> "launch-failure",
              ctx |-> live, installs |-> res.installs, virtualization |-> FALSE]
        ELSE [launched |-> TRUE, outcome |-> "none",
              ctx |-> live, installs |-> res.installs, virtualization |-> FALSE]

-----------------------------------------------------------------------------
(* Terminal paths of an attempt *)

emit_failure_guidance(c) ==
    maybe_emit_phase_guidance(
        maybe_emit_system_crash_guidance(
            maybe_emit_missing_instrumentation_guidance(c)))

emit_timeout_guidance(c) ==
    maybe_emit_phase_guidance(maybe_emit_system_crash_guidance(c))

kill(ch) ==
    IF ch.state = "running"
    THEN [ch EXCEPT !.state = "killed", !.stdout_open = FALSE]
    ELSE ch

\* except HarnessStartTimeout
start_timeout_result(c) ==
    [code |-> 1, outcome |-> "startup-timeout", ctx |-> emit_failure_guidance(c),
     diagnostics |-> <<"startup-diagnostics",
                       IF c.system_crash_detected THEN "native:system-server-crash"
                       ELSE "native:startup-timeout",
                       "healthcheck">>]

\* except subprocess.TimeoutExpired
wait_timeout_result(c) ==
    [code |-> 1, outcome |-> "instrumentation-timeout",
     ctx |-> emit_timeout_guidance(c),
     diagnostics |-> <<IF c.system_crash_detected THEN "native:system-server-crash"
                       ELSE "native:instrumentation-timeout">>]

\* variant: a clean exit of the child is a success whatever was captured
exit_result_unchecked(c, rc) ==
    IF rc = None
    THEN [code |-> 1, outcome |-> "unexpected-termination",
          ctx |-> emit_failure_guidance(c),
          diagnostics |-> <<"native:unexpected-termination">>]
    ELSE IF rc[1] # 0
    THEN [code |-> rc[1], outcome |-> "non-zero-exit",
          ctx |-> emit_failure_guidance(c), diagnostics |-> <<>>]
    ELSE [code |-> 0, outcome |-> "captured", ctx |-> c, diagnostics |-> <<>>]

\* variant: every failure of the child is reported as 1
exit_result_flat(c, rc) ==
    IF rc = None \/ rc[1] # 0
    THEN [code |-> 1, outcome |-> "non-zero-exit",
          ctx |-> emit_failure_guidance(c), diagnostics |-> <<>>]
    ELSE IF ~c.capture_completed
    THEN [code |-> 1, outcome |-> "no-capture",
          ctx |-> emit_failure_guidance(c), diagnostics |-> <<>>]
    ELSE [code |-> 0, outcome |-> "captured", ctx |-> c, diagnostics |-> <<>>]

\* the code after process.wait returned `rc`
exit_result(c, rc) ==
    IF rc = None
    THEN [code |-> 1, outcome |-> "unexpected-termination",
          ctx |-> emit_failure_guidance(c),
          diagnostics |-> <<"native:unexpected-termination">>]
    ELSE IF rc[1] # 0
    THEN [code |-> rc[1], outcome |-> "non-zero-exit",
          ctx |-> emit_failure_guidance(c),
          diagnostics |-> IF c.system_crash_detected
                          THEN <<"native:system-server-crash">>
                          ELSE IF c.process_crash_detected
                          THEN <<"native:process-crash">>
                          ELSE <<>>]
    ELSE IF ~c.capture_completed
    THEN [code |-> 1, outcome |-> "no-capture",
          ctx |-> emit_failure_guidance(c), diagnostics |-> <<>>]
    ELSE [code |-> 0, outcome |-> "captured", ctx |-> c, diagnostics |-> <<>>]

-----------------------------------------------------------------------------
(* main's helpers *)

PollResults == {"no-device", "not-found", "found"}

\* polls: what each round of the loop sees before the deadline
wait_for_activity_manager(polls) ==
    \E i \in 1..Len(polls) : polls[i] = "found"

\* variant: an earlier auto-install is not remembered
wants_auto_install_again(a, c, attempted) ==
    /\ c.missing_instrumentation_detected
    /\ ~a.skip_auto_install

\* variant: no auto-install when a system crash was seen as well
wants_auto_install_unless_crashed(a, c, attempted) ==
    /\ c.missing_instrumentation_detected
    /\ ~c.system_crash_detected
    /\ ~a.skip_auto_install
    /\ ~attempted

wants_auto_install(a, c, attempted) ==
    /\ c.missing_instrumentation_detected
    /\ ~a.skip_auto_install
    /\ ~attempted

\* variant: the budget is compared with <=
wants_crash_retry_inclusive(c, used) ==
    /\ c.system_crash_detected
    /\ used <= max_system_crash_retries

wants_crash_retry(c, used) ==
    /\ c.system_crash_detected
    /\ used < max_system_crash_retries

-----------------------------------------------------------------------------
(* The state machine *)

\* lines a child of the orchestration model may write
SessionLines ==
    {PackageLine(<<"a">>), ReadyLine(<<"r">>), DoneLine(<<"d">>),
     SystemCrashLine, MissingLine}

ChildExitCodes == {0, 2}

NoChild == [state |-> "none", stdout_open |-> FALSE]

streamVars == <<queue, started, reader_done, emitted>>
mainVars == <<system_crash_attempts, auto_install_attempted, last_exit_code,
              auto_installed, am_reachable, attempts, installs, main_result>>

NoCall == [op |-> "none", printed |-> FALSE]

Init ==
    /\ args \in [skip_auto_install : BOOLEAN, extra_arg_ok : BOOLEAN]
    /\ pc = "start"
    /\ ctx = HarnessContext(None)
    /\ queue = <<>>
    /\ started = FALSE
    /\ reader_done = FALSE
    /\ child = NoChild
    /\ emitted = 0
    /\ observed = 0
    /\ effects = NoEffects
    /\ return_code = None
    /\ exit_code = None
    /\ outcome = "none"
    /\ virtualization = FALSE
    /\ system_crash_attempts = 0
    /\ auto_install_attempted = args.skip_auto_install
    /\ last_exit_code = 1
    /\ auto_installed = FALSE
    /\ am_reachable = FALSE
    /\ attempts = <<"initial">>
    /\ installs = 0
    /\ main_result = None
    /\ last_call = NoCall
    /\ produced = <<>>
    /\ consumed = <<>>
    /\ read_failed = FALSE

\* the attempt returns `code`; the locals of the streaming loop go out of scope
Return(code, out, c, eff, ch) ==
    /\ pc' = "returned"
    /\ exit_code' = Some(code)
    /\ outcome' = out
    /\ ctx' = c
    /\ effects' = eff
    /\ child' = ch
    /\ queue' = <<>>
    /\ started' = FALSE
    /\ reader_done' = FALSE
    /\ UNCHANGED emitted

\* run_instrumentation_once from its entry to the launch of the child
Launch ==
    /\ pc = "start"
    /\ \E env \in LaunchEnvs :
          LET r == launch_attempt(args, env)
          IN  /\ installs' = installs + r.installs
              /\ virtualization' = r.virtualization
              /\ observed' = 0
              /\ return_code' = None
              /\ IF r.launched
                 THEN /\ pc' = "stream"
                      /\ ctx' = r.ctx
                      /\ effects' = NoEffects
                      /\ exit_code' = None
                      /\ outcome' = "none"
                      /\ child' = [state |-> "running", stdout_open |-> TRUE]
                      /\ UNCHANGED streamVars
                 ELSE Return(1, r.outcome, r.ctx, NoEffects, NoChild)
    /\ UNCHANGED <<args, last_call, streamTrace, system_crash_attempts, auto_install_attempted,
                   last_exit_code, auto_installed, am_reachable, attempts,
                   main_result>>

\* the child writes a line and the reader thread puts it in the queue
ReaderLine(line) ==
    /\ pc = "stream"
    /\ child.state = "running"
    /\ child.stdout_open
    /\ ~reader_done
    /\ emitted < MaxLines
    /\ queue' = Append(queue, Some(line))
    /\ emitted' = emitted + 1
    /\ UNCHANGED <<args, last_call, streamTrace, pc, ctx, started, reader_done, child,
                   observed, effects, return_code, exit_code, outcome,
                   virtualization>>
    /\ UNCHANGED mainVars

\* the reader thread reaches the end of the stream and puts the sentinel
ReaderEOF ==
    /\ pc = "stream"
    /\ ~child.stdout_open
    /\ ~reader_done
    /\ queue' = Append(queue, None)
    /\ reader_done' = TRUE
    /\ UNCHANGED <<args, last_call, streamTrace, pc, ctx, started, child, emitted,
                   observed, effects, return_code, exit_code, outcome,
                   virtualization>>
    /\ UNCHANGED mainVars

\* the child closes its output and stays alive
ChildCloseStdout ==
    /\ pc = "stream"
    /\ child.state = "running"
    /\ child.stdout_open
    /\ child' = [child EXCEPT !.stdout_open = FALSE]
    /\ UNCHANGED <<args, last_call, streamTrace, pc, ctx, observed, effects, return_code, exit_code,
                   outcome, virtualization>>
    /\ UNCHANGED streamVars
    /\ UNCHANGED mainVars

\* the child exits, which closes its output
ChildExit ==
    /\ pc \in {"stream", "wait"}
    /\ child.state = "running"
    /\ child' = [state |-> "exited", stdout_open |-> FALSE]
    /\ UNCHANGED <<args, last_call, streamTrace, pc, ctx, observed, effects, return_code, exit_code,
                   outcome, virtualization>>
    /\ UNCHANGED streamVars
    /\ UNCHANGED mainVars

\* variant: the deadline is checked on every iteration
start_timeout_due_always(is_started) ==
    TRUE

\* whether an iteration of the loop can raise HarnessStartTimeout: only one
\* before the first line, either because the deadline has passed when the
\* iteration begins, whatever the queue holds, or because the timed get
\* finds the queue empty until the deadline
start_timeout_due(is_started) ==
    ~is_started

\* one iteration of the streaming loop on a line: observe, collect, handshake
ConsumeLine ==
    /\ pc = "stream"
    /\ queue # <<>>
    /\ Head(queue) # None
    /\ LET line == Head(queue)[1]
           c == maybe_collect_done_flags(
                    maybe_collect_ready_flag(
                        maybe_collect_package(observe_line(ctx, line), line),
                        line),
                    line)
       IN  \E dev \in (IF handshake_ready(c) THEN DeviceStates(c)
                                               ELSE {UntouchedDevice}) :
              LET h == capture_handshake(c, effects, dev, observed + 1)
              IN  /\ ctx' = h.ctx
                  /\ effects' = h.effects
                  /\ pc' = IF h.raised THEN "raised" ELSE "stream"
    /\ queue' = Tail(queue)
    /\ started' = TRUE
    /\ observed' = observed + 1
    /\ UNCHANGED <<args, last_call, streamTrace, reader_done, child, emitted,
                   return_code, exit_code, outcome, virtualization>>
    /\ UNCHANGED mainVars

\* the loop takes the sentinel and ends; process.wait follows
ConsumeSentinel ==
    /\ pc = "stream"
    /\ queue # <<>>
    /\ Head(queue) = None
    /\ queue' = Tail(queue)
    /\ pc' = "wait"
    /\ UNCHANGED <<args, last_call, streamTrace, ctx, started, reader_done, child,
                   emitted, observed, effects, return_code, exit_code, outcome,
                   virtualization>>
    /\ UNCHANGED mainVars

\* HarnessStartTimeout and its handler
StartTimeout ==
    /\ pc = "stream"
    /\ start_timeout_due(started)
    /\ LET r == start_timeout_result(ctx)
       IN  Return(r.code, r.outcome, r.ctx,
                  [effects EXCEPT !.diagnostics = @ \o r.diagnostics],
                  kill(child))
    /\ UNCHANGED <<args, last_call, streamTrace, observed, return_code, virtualization>>
    /\ UNCHANGED mainVars

\* process.wait returns the child's status
WaitExit ==
    /\ pc = "wait"
    /\ child.state = "exited"
    /\ \E status \in ChildExitCodes :
          LET r == exit_result(ctx, Some(status))
          IN  /\ return_code' = Some(status)
              /\ Return(r.code, r.outcome, r.ctx,
                        [effects EXCEPT !.diagnostics = @ \o r.diagnostics], child)
    /\ UNCHANGED <<args, last_call, streamTrace, observed, virtualization>>
    /\ UNCHANGED mainVars

\* process.wait raises TimeoutExpired
WaitTimeout ==
    /\ pc = "wait"
    /\ child.state = "running"
    /\ LET r == wait_timeout_result(ctx)
       IN  Return(r.code, r.outcome, r.ctx,
                  [effects EXCEPT !.diagnostics = @ \o r.diagnostics],
                  kill(child))
    /\ UNCHANGED <<args, last_call, streamTrace, observed, return_code, virtualization>>
    /\ UNCHANGED mainVars

attemptVars == <<args, last_call, streamTrace, ctx, queue, started, reader_done, child,
                 emitted, observed, effects, return_code, exit_code, outcome,
                 virtualization>>

\* main: last_exit_code, the success return and the auto-install condition
MainCheckExit ==
    /\ pc = "returned"
    /\ last_exit_code' = exit_code[1]
    /\ IF exit_code[1] = 0
       THEN /\ pc' = "done"
            /\ main_result' = Some(0)
            /\ UNCHANGED auto_install_attempted
       ELSE IF wants_auto_install(args, ctx, auto_install_attempted)
       THEN /\ pc' = "auto_install"
            /\ auto_install_attempted' = TRUE
            /\ UNCHANGED main_result
       ELSE /\ pc' = "crash_check"
            /\ UNCHANGED <<auto_install_attempted, main_result>>
    /\ UNCHANGED <<system_crash_attempts, auto_installed, am_reachable, attempts,
                   installs>>
    /\ UNCHANGED attemptVars

\* main: auto_install_debug_apks and the retry that follows its success
MainAutoInstall ==
    /\ pc = "auto_install"
    /\ \E gradle \in InstallOutcomes :
          LET r == auto_install_debug_apks(args, gradle)
          IN  /\ installs' = installs + (IF r.ran THEN 1 ELSE 0)
              /\ auto_installed' = r.ok
              /\ IF r.ok
                 THEN /\ pc' = "start"
                      /\ attempts' = Append(attempts, "install")
                 ELSE /\ pc' = "crash_check"
                      /\ UNCHANGED attempts
    /\ UNCHANGED <<system_crash_attempts, auto_install_attempted, last_exit_code,
                   am_reachable, main_result>>
    /\ UNCHANGED attemptVars

\* main: the crash-retry condition, and the final break
MainCrashCheck ==
    /\ pc = "crash_check"
    /\ IF wants_crash_retry(ctx, system_crash_attempts)
       THEN /\ system_crash_attempts' = system_crash_attempts + 1
            /\ pc' = "am_wait"
            /\ UNCHANGED <<auto_install_attempted, main_result>>
       ELSE /\ auto_install_attempted' =
                   (auto_install_attempted \/ ctx.missing_instrumentation_detected)
            /\ main_result' = Some(last_exit_code)
            /\ pc' = "done"
            /\ UNCHANGED system_crash_attempts
    /\ UNCHANGED <<last_exit_code, auto_installed, am_reachable, attempts,
                   installs>>
    /\ UNCHANGED attemptVars

\* main: wait_for_activity_manager, then retry or abort
MainWaitAM ==
    /\ pc = "am_wait"
    /\ \E polls \in [1..MaxPolls -> PollResults] :
          /\ am_reachable' = wait_for_activity_manager(polls)
          /\ IF wait_for_activity_manager(polls)
             THEN /\ pc' = "start"
                  /\ attempts' = Append(attempts, "crash")
                  /\ UNCHANGED main_result
             ELSE /\ pc' = "done"
                  /\ main_result' = Some(last_exit_code)
                  /\ UNCHANGED attempts
    /\ UNCHANGED <<system_crash_attempts, auto_install_attempted, last_exit_code,
                   auto_installed, installs>>
    /\ UNCHANGED attemptVars

Next ==
    \/ Launch
    \/ \E line \in SessionLines : ReaderLine(line)
    \/ ReaderEOF
    \/ ChildCloseStdout
    \/ ChildExit
    \/ ConsumeLine
    \/ ConsumeSentinel
    \/ StartTimeout
    \/ WaitExit
    \/ WaitTimeout
    \/ MainCheckExit
    \/ MainAutoInstall
    \/ MainCrashCheck
    \/ MainWaitAM

Spec == Init /\ [][Next]_vars

\* the steps of the harness's main thread
MainThread ==
    \/ Launch
    \/ ConsumeLine
    \/ ConsumeSentinel
    \/ StartTimeout
    \/ WaitExit
    \/ WaitTimeout
    \/ MainCheckExit
    \/ MainAutoInstall
    \/ MainCrashCheck
    \/ MainWaitAM

\* The harness's two threads keep running and every timed wait of the code
\* expires; nothing is assumed of the child.
FairSpec == Spec /\ WF_vars(MainThread) /\ WF_vars(ReaderEOF)

-----------------------------------------------------------------------------
(* HarnessContext on its own: any calls, in any order, on one context *)

CtxLines ==
    {SystemCrashLine, MissingLine, PackageLine(<<"a">>), PackageLine(<<"?">>),
     PhaseLine("start", "Foo", "bar", JsonInt(1)),
     PhaseLine("retry", "Foo", "bar", JsonStr(<<"2">>))}

InitCtx ==
    /\ args = [skip_auto_install |-> FALSE, extra_arg_ok |-> TRUE]
    /\ pc = "ctx"
    /\ ctx \in {HarnessContext(fallback) : fallback \in {None} \cup FallbackPackages}
    /\ queue = <<>>
    /\ started = FALSE
    /\ reader_done = FALSE
    /\ child = NoChild
    /\ emitted = 0
    /\ observed = 0
    /\ effects = NoEffects
    /\ return_code = None
    /\ exit_code = None
    /\ outcome = "none"
    /\ virtualization = FALSE
    /\ system_crash_attempts = 0
    /\ auto_install_attempted = FALSE
    /\ last_exit_code = 1
    /\ auto_installed = FALSE
    /\ am_reachable = FALSE
    /\ attempts = <<>>
    /\ installs = 0
    /\ main_result = None
    /\ last_call = NoCall
    /\ produced = <<>>
    /\ consumed = <<>>
    /\ read_failed = FALSE

Printed(c) ==
    c.printed.crash + c.printed.missing + c.printed.phase + c.printed.pkgwarn

\* a call of `op` took the context from ctx to c
CtxCall(op, c) ==
    /\ pc = "ctx"
    /\ \A class \in DOMAIN ctx.printed : ctx.printed[class] < MaxPrints
    /\ ctx' = c
    /\ last_call' = [op |-> op, printed |-> Printed(c) # Printed(ctx)]
    /\ UNCHANGED streamTrace
    /\ UNCHANGED <<args, pc, queue, started, reader_done, child, emitted, observed,
                   effects, return_code, exit_code, outcome, virtualization>>
    /\ UNCHANGED mainVars

CtxObserveLine(line) ==
    /\ Len(ctx.phase_events) < MaxPhaseEvents
    /\ CtxCall("observe_line", observe_line(ctx, line))

CtxCollectPackage(line) ==
    CtxCall("maybe_collect_package", maybe_collect_package(ctx, line))

CtxEmitSystemCrashGuidance ==
    CtxCall("maybe_emit_system_crash_guidance",
            maybe_emit_system_crash_guidance(ctx))

CtxEmitMissingInstrumentationGuidance ==
    CtxCall("maybe_emit_missing_instrumentation_guidance",
            maybe_emit_missing_instrumentation_guidance(ctx))

CtxEmitPhaseGuidance ==
    CtxCall("maybe_emit_phase_guidance", maybe_emit_phase_guidance(ctx))

NextCtx ==
    \/ \E line \in CtxLines : CtxObserveLine(line)
    \/ \E line \in CtxLines : CtxCollectPackage(line)
    \/ CtxEmitSystemCrashGuidance
    \/ CtxEmitMissingInstrumentationGuidance
    \/ CtxEmitPhaseGuidance

SpecCtx == InitCtx /\ [][NextCtx]_vars

-----------------------------------------------------------------------------
(* stream_instrumentation_output on its own: the child writes into the pipe, *)
(* the reader thread moves lines from the pipe to the queue, the consumer    *)
(* takes them from the queue.                                                *)

MaxProduced == 3    \* lines the child of SpecStream writes

\* lines the child of SpecStream may write
StreamLines ==
    {MissingLine, PhaseLine("start", "Foo", "bar", JsonInt(1))}

\* variant: a queue that hands out the newest item first
queue_put_front(q, item) ==
    <<item>> \o q

\* output_queue.put on the FIFO queue.Queue
queue_put(q, item) ==
    Append(q, item)

\* the lines among the items of the queue
RECURSIVE queued_lines(_)
queued_lines(q) ==
    IF q = <<>> THEN <<>>
    ELSE (IF Head(q) = None THEN <<>> ELSE <<Head(q)[1]>>) \o queued_lines(Tail(q))

\* how many lines the reader thread has read from the pipe
lines_read == Len(consumed) + Len(queued_lines(queue))

InitStream ==
    /\ args = [skip_auto_install |-> FALSE, extra_arg_ok |-> TRUE]
    /\ pc = "stream"
    /\ ctx = HarnessContext(None)
    /\ queue = <<>>
    /\ started = FALSE
    /\ reader_done = FALSE
    /\ child = [state |-> "running", stdout_open |-> TRUE]
    /\ emitted = 0
    /\ observed = 0
    /\ effects = NoEffects
    /\ return_code = None
    /\ exit_code = None
    /\ outcome = "none"
    /\ virtualization = FALSE
    /\ system_crash_attempts = 0
    /\ auto_install_attempted = FALSE
    /\ last_exit_code = 1
    /\ auto_installed = FALSE
    /\ am_reachable = FALSE
    /\ attempts = <<"initial">>
    /\ installs = 0
    /\ main_result = None
    /\ last_call = NoCall
    /\ produced = <<>>
    /\ consumed = <<>>
    /\ read_failed = FALSE

\* the child writes a line to its output
StreamChildWrite(line) ==
    /\ pc = "stream"
    /\ child.state = "running"
    /\ child.stdout_open
    /\ Len(produced) < MaxProduced
    /\ produced' = Append(produced, line)
    /\ UNCHANGED <<args, last_call, consumed, read_failed, pc, ctx, child,
                   observed, effects, return_code, exit_code, outcome,
                   virtualization>>
    /\ UNCHANGED streamVars
    /\ UNCHANGED mainVars

\* _reader: `for line in process.stdout` yields the next line, which is put
StreamReaderLine ==
    /\ pc = "stream"
    /\ ~reader_done
    /\ lines_read < Len(produced)
    /\ queue' = queue_put(queue, Some(produced[lines_read + 1]))
    /\ UNCHANGED <<args, last_call, streamTrace, pc, ctx, started, reader_done,
                   child, emitted, observed, effects, return_code, exit_code,
                   outcome, virtualization>>
    /\ UNCHANGED mainVars

\* variant: the reader ends without its `finally`
reader_finish_silent(failed) ==
    /\ reader_done' = TRUE
    /\ read_failed' = failed
    /\ UNCHANGED <<args, last_call, produced, consumed, pc, ctx, started, child,
                   emitted, observed, effects, return_code, exit_code, outcome,
                   virtualization, queue>>
    /\ UNCHANGED mainVars

\* the end of _reader: the `finally` puts the sentinel
reader_finish(failed) ==
    /\ queue' = queue_put(queue, None)
    /\ reader_done' = TRUE
    /\ read_failed' = failed
    /\ UNCHANGED <<args, last_call, produced, consumed, pc, ctx, started, child,
                   emitted, observed, effects, return_code, exit_code, outcome,
                   virtualization>>
    /\ UNCHANGED mainVars

\* _reader: the pipe is empty and closed, the `for` ends
StreamReaderEOF ==
    /\ pc = "stream"
    /\ ~reader_done
    /\ lines_read = Len(produced)
    /\ ~child.stdout_open
    /\ reader_finish(FALSE)

\* _reader: reading the pipe raises (the output is not valid text)
StreamReaderFail ==
    /\ pc = "stream"
    /\ ~reader_done
    /\ reader_finish(TRUE)

\* one iteration of the generator on a line: echo, observe_line, yield
StreamConsumeLine ==
    /\ pc = "stream"
    /\ queue # <<>>
    /\ Head(queue) # None
    /\ queue' = Tail(queue)
    /\ started' = TRUE
    /\ ctx' = observe_line(ctx, Head(queue)[1])
    /\ consumed' = Append(consumed, Head(queue)[1])
    /\ observed' = observed + 1
    /\ UNCHANGED <<args, last_call, produced, read_failed, pc, reader_done,
                   child, emitted, effects, return_code, exit_code, outcome,
                   virtualization>>
    /\ UNCHANGED mainVars

NextStream ==
    \/ \E line \in StreamLines : StreamChildWrite(line)
    \/ ChildCloseStdout
    \/ ChildExit
    \/ StreamReaderLine
    \/ StreamReaderEOF
    \/ StreamReaderFail
    \/ StreamConsumeLine
    \/ ConsumeSentinel
    \/ StartTimeout

SpecStream == InitStream /\ [][NextStream]_vars

\* the steps of the reader thread and of the consumer
StreamThreads ==
    \/ StreamReaderLine
    \/ StreamReaderEOF
    \/ StreamConsumeLine
    \/ ConsumeSentinel
    \/ StartTimeout

\* Both threads keep running and the timed get expires; nothing is assumed
\* of the child, and reading need never fail.
FairSpecStream == SpecStream /\ WF_vars(StreamThreads)

-----------------------------------------------------------------------------
(* The collectors of the streaming loop on any sequence of lines *)

MaxFed == 3         \* lines SpecFlags gives to the collectors

\* the text after "Writing screenshot ready flag to " in the lines of SpecFlags
ReadyTexts == {<<"r">>, <<" ", "r">>, <<"s">>, <<" ">>}

\* the text after "completion signal at " in the lines of SpecFlags
DoneTexts ==
    {<<"d">>, <<"d", ",", " ", "e">>, <<"e", ",", ",", "d", " ">>, <<",">>}

FlagLines ==
    {ReadyLine(text) : text \in ReadyTexts}
        \cup {DoneLine(text) : text \in DoneTexts}
        \cup {PackageLine(<<"?">>), PlainLine}

InitFlags ==
    /\ args = [skip_auto_install |-> FALSE, extra_arg_ok |-> TRUE]
    /\ pc = "stream"
    /\ ctx = HarnessContext(<<"a">>)
    /\ queue = <<>>
    /\ started = FALSE
    /\ reader_done = FALSE
    /\ child = [state |-> "running", stdout_open |-> TRUE]
    /\ emitted = 0
    /\ observed = 0
    /\ effects = NoEffects
    /\ return_code = None
    /\ exit_code = None
    /\ outcome = "none"
    /\ virtualization = FALSE
    /\ system_crash_attempts = 0
    /\ auto_install_attempted = FALSE
    /\ last_exit_code = 1
    /\ auto_installed = FALSE
    /\ am_reachable = FALSE
    /\ attempts = <<"initial">>
    /\ installs = 0
    /\ main_result = None
    /\ last_call = NoCall
    /\ produced = <<>>
    /\ consumed = <<>>
    /\ read_failed = FALSE

\* the three collectors of one iteration of the streaming loop
FlagsCollect(line) ==
    /\ pc = "stream"
    /\ Len(consumed) < MaxFed
    /\ ctx' = maybe_collect_done_flags(
                  maybe_collect_ready_flag(maybe_collect_package(ctx, line), line),
                  line)
    /\ consumed' = Append(consumed, line)
    /\ UNCHANGED <<args, last_call, produced, read_failed, pc, child, observed,
                   effects, return_code, exit_code, outcome, virtualization>>
    /\ UNCHANGED streamVars
    /\ UNCHANGED mainVars

NextFlags ==
    \E line \in FlagLines : FlagsCollect(line)

SpecFlags == InitFlags /\ [][NextFlags]_vars

\* the text after "Resolved screenshot harness package name: " in the lines
\* of SpecPackages: package names, a name between blanks, a masked name that
\* an installed package matches, names that nothing resolves, and blanks
PackageTexts ==
    {<<"b">>, <<" ", "a", ".", "b", " ">>, <<"a", "*", "b">>, <<"?">>,
     <<"*", "?">>, <<" ">>}

NextPackages ==
    \E text \in PackageTexts : FlagsCollect(PackageLine(text))

SpecPackages == InitFlags /\ [][NextPackages]_vars

-----------------------------------------------------------------------------
(* The streaming loop while the handshake is pending *)

MaxPending == 4     \* lines SpecPending gives to the streaming loop

\* two ready flags, a done flag and a line that announces nothing
PendingLines ==
    {ReadyLine(<<"r">>), ReadyLine(<<"s">>), DoneLine(<<"d">>), PlainLine}

\* one iteration of the streaming loop on `line`, on a device whose ready
\* flags read as `cat` and whose other commands succeed; last_call records
\* the call of read_ready_payload, if the iteration made one
PendingConsume(line) ==
    /\ pc = "stream"
    /\ Len(consumed) < MaxPending
    /\ LET c == maybe_collect_done_flags(
                    maybe_collect_ready_flag(
                        maybe_collect_package(observe_line(ctx, line), line),
                        line),
                    line)
       IN  \E cat \in (IF handshake_ready(c)
                        THEN [Range(c.ready_flags) -> CatResults] ELSE {<<>>}) :
              LET dev == [cat |-> cat, screencap |-> TRUE,
                          truncate |-> [flag \in Range(c.done_flags) |-> TRUE],
                          echo |-> [flag \in Range(c.done_flags) |-> TRUE]]
                  h == capture_handshake(c, effects, dev, Len(consumed) + 1)
              IN  /\ ctx' = h.ctx
                  /\ effects' = h.effects
                  /\ last_call' = IF handshake_ready(c)
                                  THEN [op |-> "read_ready_payload",
                                        arg |-> [ready_flags |-> c.ready_flags,
                                                 cat |-> cat],
                                        result |-> read_ready_payload(c, cat),
                                        raised |-> FALSE]
                                  ELSE NoCall
    /\ consumed' = Append(consumed, line)
    /\ UNCHANGED <<args, produced, read_failed, pc, child, observed,
                   return_code, exit_code, outcome, virtualization>>
    /\ UNCHANGED streamVars
    /\ UNCHANGED mainVars

NextPending ==
    \E line \in PendingLines : PendingConsume(line)

SpecPending == InitFlags /\ [][NextPending]_vars

-----------------------------------------------------------------------------
(* HarnessContext.observe_line on any sequence of phase lines *)

MaxObserved == 4    \* lines SpecPhases gives to observe_line

\* phase events of two attempts of Foo.bar and one of Foo.baz, an attempt
\* given as text, a payload without a usable attempt, and a line that is
\* no phase event
PhaseFeed ==
    {PhaseLine("start", "Foo", "bar", JsonInt(1)),
     PhaseLine("retry", "Foo", "bar", JsonInt(1)),
     PhaseLine("start", "Foo", "bar", JsonInt(2)),
     PhaseLine("complete", "Foo", "bar", JsonStr(<<"2">>)),
     PhaseLine("start", "Foo", "baz", JsonInt(1)),
     PhaseLine("start", "Foo", "bar", JsonNull),
     PlainLine}

PhasesObserve(line) ==
    /\ pc = "stream"
    /\ Len(consumed) < MaxObserved
    /\ ctx' = observe_line(ctx, line)
    /\ consumed' = Append(consumed, line)
    /\ UNCHANGED <<args, last_call, produced, read_failed, pc, child, observed,
                   effects, return_code, exit_code, outcome, virtualization>>
    /\ UNCHANGED streamVars
    /\ UNCHANGED mainVars

NextPhases ==
    \E line \in PhaseFeed : PhasesObserve(line)

SpecPhases == InitFlags /\ [][NextPhases]_vars

\* a failure path prints the phase timeline of the lines observed so far
PhasesEmitGuidance ==
    /\ pc = "stream"
    /\ ~ctx.phase_guidance_emitted
    /\ ctx' = maybe_emit_phase_guidance(ctx)
    /\ pc' = "returned"
    /\ UNCHANGED <<args, last_call, streamTrace, child, observed,
                   effects, return_code, exit_code, outcome, virtualization>>
    /\ UNCHANGED streamVars
    /\ UNCHANGED mainVars

NextTimeline ==
    \/ \E line \in PhaseFeed : PhasesObserve(line)
    \/ PhasesEmitGuidance

SpecTimeline == InitFlags /\ [][NextTimeline]_vars

\* lines with the signatures observe_line searches for: the system-crash
\* phrase with and without the INSTRUMENTATION_ABORTED header, the header
\* alone, the process-crash and missing-instrumentation phrases, all three
\* phrases, and the system-crash phrase inside a HARNESS PHASE payload that
\* is a JSON string
SignatureFeed ==
    {PlainLine, SystemCrashLine, [PlainLine EXCEPT !.crashed = TRUE],
     [PlainLine EXCEPT !.aborted = TRUE], ProcessCrashLine, MissingLine,
     [MissingLine EXCEPT !.crashed = TRUE, !.proc = TRUE],
     [PlainLine EXCEPT !.crashed = TRUE, !.phase = Some(PhasePayload("value"))]}

NextSignatures ==
    \E line \in SignatureFeed : PhasesObserve(line)

SpecSignatures == InitFlags /\ [][NextSignatures]_vars

-----------------------------------------------------------------------------
(* HarnessContext.observe_line on testpoint lines, with callbacks that are   *)
(* registered at any time                                                    *)

MaxMarkers == 3     \* lines SpecTestpoints gives to observe_line
MaxCallbacks == 2   \* callbacks SpecTestpoints registers

\* a marker with a detail, another without, a marker between blanks with an
\* empty detail, an unknown marker, an unknown marker with a detail, and a
\* line that is no testpoint
TestpointFeed ==
    {TestpointLine("ready_for_screenshot", Some(<<"p">>)),
     TestpointLine("ui_loaded", None),
     TestpointText(<<" ", "cache_ready", " ", ":", " ">>),
     TestpointLine("unknown_marker", None),
     TestpointLine("unknown_marker", Some(<<"p">>)),
     PlainLine}

\* callbacks are named by the order of their registration
registered(c) == Len(c.testpoint_callbacks) + Len(c.testpoint_any_callbacks)

TestpointsStep(c) ==
    /\ pc = "stream"
    /\ ctx' = c
    /\ UNCHANGED <<args, produced, read_failed, pc, child, observed,
                   effects, return_code, exit_code, outcome, virtualization>>
    /\ UNCHANGED streamVars
    /\ UNCHANGED mainVars

TestpointsRegister(point) ==
    /\ registered(ctx) < MaxCallbacks
    /\ TestpointsStep(on_testpoint(ctx, point, registered(ctx) + 1))
    /\ UNCHANGED <<last_call, consumed>>

TestpointsRegisterAny ==
    /\ registered(ctx) < MaxCallbacks
    /\ TestpointsStep(on_any_testpoint(ctx, registered(ctx) + 1))
    /\ UNCHANGED <<last_call, consumed>>

TestpointsObserve(line) ==
    /\ Len(consumed) < MaxMarkers
    /\ TestpointsStep(observe_line(ctx, line))
    /\ consumed' = Append(consumed, line)
    /\ last_call' = [op |-> "observe_line", arg |-> line,
                     result |-> observe_line_notified(ctx, line),
                     raised |-> observe_line_raises(ctx, line)]

NextTestpoints ==
    \/ \E point \in {"ready_for_screenshot", "cache_ready"} :
          TestpointsRegister(point)
    \/ TestpointsRegisterAny
    \/ \E line \in TestpointFeed : TestpointsObserve(line)

SpecTestpoints == InitFlags /\ [][NextTestpoints]_vars

-----------------------------------------------------------------------------
(* The pure functions of the module, each called on every input of a       *)
(* bounded set; last_call holds the argument and what the call did.        *)

InitCalls ==
    /\ args = [skip_auto_install |-> FALSE, extra_arg_ok |-> TRUE]
    /\ pc = "call"
    /\ ctx = HarnessContext(None)
    /\ queue = <<>>
    /\ started = FALSE
    /\ reader_done = FALSE
    /\ child = NoChild
    /\ emitted = 0
    /\ observed = 0
    /\ effects = NoEffects
    /\ return_code = None
    /\ exit_code = None
    /\ outcome = "none"
    /\ virtualization = FALSE
    /\ system_crash_attempts = 0
    /\ auto_install_attempted = FALSE
    /\ last_exit_code = 1
    /\ auto_installed = FALSE
    /\ am_reachable = FALSE
    /\ attempts = <<>>
    /\ installs = 0
    /\ main_result = None
    /\ last_call = NoCall
    /\ produced = <<>>
    /\ consumed = <<>>
    /\ read_failed = FALSE

\* a call of `op` on `arg` returned `result`, or raised
Call(op, arg, result, raised) ==
    /\ pc = "call"
    /\ pc' = "called"
    /\ last_call' = [op |-> op, arg |-> arg, result |-> result, raised |-> raised]
    /\ UNCHANGED <<args, streamTrace, ctx, child, observed, effects,
                   return_code, exit_code, outcome, virtualization>>
    /\ UNCHANGED streamVars
    /\ UNCHANGED mainVars

\* the values of "attempt" in the payloads given to parse_phase_event
AttemptValues ==
    {JsonInt(1), JsonStr(<<"2">>), JsonStr(<<" ", "1">>), JsonStr(<<"1", "2">>),
     JsonStr(<<"x">>), JsonStr(<<>>), JsonNull}

\* the lines given to parse_phase_event
PhaseInputs ==
    {PlainLine}
        \cup {[PlainLine EXCEPT !.phase = Some(PhasePayload(kind))] :
                  kind \in {"malformed", "value"}}
        \cup {[PlainLine EXCEPT !.phase =
                    Some(PhaseObject(event, type, component, operation, attempt))] :
                  event \in {"harness_phase", "other"}, type \in {"", "start"},
                  component \in {"", "Foo"}, operation \in {"", "bar"},
                  attempt \in AttemptValues}

CallParsePhaseEvent(line) ==
    Call("parse_phase_event", line,
         IF parse_phase_event_raises(line) THEN None ELSE parse_phase_event(line),
         parse_phase_event_raises(line))

MaxName == 3        \* length of the names given to sanitize_cache_name

NameChars == {"a", "_", ".", "-", " ", "/"}

Names == UNION {[1..n -> NameChars] : n \in 0..MaxName}

Fallbacks == {None, Some(<<"a">>), Some(<<"/">>), Some(<<>>)}

CallSanitizeCacheName(value, fallback) ==
    Call("sanitize_cache_name", [value |-> value, fallback |-> fallback],
         sanitize_cache_name(value, fallback), FALSE)

MaxPageIndex == 2   \* largest pageIndex of the payloads of SpecCalls

DocumentIds ==
    {<<"D", " ", "1">>, <<"a">>, <<" ", "a", ".">>, <<"/">>, <<>>}

\* the ready payloads of SpecCalls: objects with documentId and pageIndex,
\* with or without sanitizedDocumentId and pageNumber, text that is not
\* JSON, and a JSON value that is not an object
SessionPayloads ==
    {CatOutput("object", sanitized, Some(documentId), pageNumber, Some(pageIndex)) :
        sanitized \in {None, Some(<<"a", "a">>)}, documentId \in DocumentIds,
        pageNumber \in {None, Some(0), Some(2)}, pageIndex \in 0..MaxPageIndex}
      \cup {CatOutput("malformed", None, None, None, None),
            CatOutput("value", None, None, None, None)}

\* the context after the streaming loop has collected from `lines`
RECURSIVE collect_all(_, _)
collect_all(c, lines) ==
    IF lines = <<>> THEN c
    ELSE collect_all(
             maybe_collect_done_flags(
                 maybe_collect_ready_flag(
                     maybe_collect_package(observe_line(c, Head(lines)), Head(lines)),
                     Head(lines)),
                 Head(lines)),
             Tail(lines))

\* a session of package, ready-flag and done-flag lines on a device whose
\* ready flag holds `payload` and whose commands succeed
CallCaptureSession(payload) ==
    LET lines == <<PackageLine(<<"a">>), ReadyLine(<<"r">>), DoneLine(<<"d">>)>>
        c == collect_all(HarnessContext(None), lines)
        dev == [cat |-> [flag \in Range(c.ready_flags) |-> payload],
                screencap |-> TRUE,
                truncate |-> [flag \in Range(c.done_flags) |-> TRUE],
                echo |-> [flag \in Range(c.done_flags) |-> TRUE]]
        h == capture_handshake(c, NoEffects, dev, Len(lines))
    IN  Call("capture_session", payload,
             [shots |-> h.effects.shots,
              capture_completed |-> h.ctx.capture_completed],
             h.raised)

MaxPackageLen == 3  \* characters of the names given to normalize_package_name

\* names of letters, ".", "_", "-", a wildcard, an illegal character, blanks
PackageNames ==
    UNION {[1..n -> {"a", ".", "_", "-", "*", "?", " "}] : n \in 0..MaxPackageLen}

CallNormalizePackageName(candidate) ==
    Call("normalize_package_name", candidate, normalize_package_name(candidate), FALSE)

\* the done flags of the sessions of SpecCalls, in the order collected
DoneFlagLists == {<<>>, <<"d">>, <<"d", "e">>, <<"e", "d">>}

\* signal_completion(args, ctx) for a session with `done_flags`, on a device
\* where truncating and writing each path succeeds or fails as given
CallSignalCompletion(fallback, done_flags, truncate, echo) ==
    LET c == [HarnessContext(fallback) EXCEPT !.done_flags = done_flags]
        r == signal_completion(c, truncate, echo)
    IN  Call("signal_completion",
             [package |-> c.package, done_flags |-> done_flags,
              truncate |-> truncate, echo |-> echo],
             r.written, r.raised)

MaxStreamed == 3    \* lines of the process given to stream_instrumentation_output

\* observe_line applied to each of `lines` in turn
RECURSIVE ObserveAll(_, _)
ObserveAll(c, lines) ==
    IF lines = <<>> THEN c
    ELSE ObserveAll(observe_line(c, Head(lines)), Tail(lines))

StreamedLines == {PlainLine, SystemCrashLine, TestpointLine("cache_ready", None)}

\* the keyword arguments a caller passes besides start_timeout=None:
\* abort_on_system_crash is None when the caller does not pass it
StreamKeywords == {None, Some(FALSE), Some(TRUE)}

\* list(stream_instrumentation_output(process, ctx, start_timeout=None, ...))
\* on a process that writes `lines` and closes its output.  The function
\* declares the keyword start_timeout only: any other keyword is a TypeError
\* of the call, before the reader thread is started.
stream_instrumentation_output(c, lines, abort_on_system_crash) ==
    IF abort_on_system_crash # None
    THEN [exception |-> "TypeError", echoed |-> <<>>, yielded |-> <<>>, ctx |-> c]
    ELSE [exception |-> "none", echoed |-> lines, yielded |-> lines,
          ctx |-> ObserveAll(c, lines)]

CallStream(lines, abort_on_system_crash) ==
    LET r == stream_instrumentation_output(HarnessContext(None), lines,
                                           abort_on_system_crash)
    IN  Call("stream_instrumentation_output",
             [lines |-> lines, abort_on_system_crash |-> abort_on_system_crash],
             [exception |-> r.exception, echoed |-> r.echoed, yielded |-> r.yielded,
              system_crash_detected |-> r.ctx.system_crash_detected],
             r.exception # "none")

MaxListed == 2      \* number of components a device lists

\* pkg.a/Runner1, pkg.b/Runner2 (with "a" for pkg and "R" for Runner), and
\* components that the listing shows masked: the package, or the package
\* and the runner
ListedComponents ==
    {<<"a", ".", "a", "/", "R", "1">>, <<"a", ".", "b", "/", "R", "2">>,
     <<"*", "/", "R", "2">>, <<"a", "*", "b", "/", "R", "1">>,
     <<"a", "*", "b", "/", "*", "R">>}

Listings == UNION {[1..n -> ListedComponents] : n \in 0..MaxListed}

\* the scoped query prints nothing or what the unscoped query prints
Devices ==
    {[scoped |-> IF scoped THEN listing ELSE <<>>, listing |-> listing] :
        listing \in Listings, scoped \in BOOLEAN}

NoDevice == [scoped |-> <<>>, listing |-> <<>>]

InstalledDevice ==
    [scoped |-> <<>>, listing |-> << <<"a", ".", "a", "/", "R", "1">> >>]

\* nothing, pkg.*/Runner2, pkg.b/Runner2, pkg.a/Runner*, pkg.a, */Runner2
RequestedComponents ==
    {<<>>, <<"a", ".", "*", "/", "R", "2">>, <<"a", ".", "b", "/", "R", "2">>,
     <<"a", ".", "a", "/", "R", "*">>, <<"a", ".", "a">>, <<"*", "/", "R", "2">>}

CallResolve(a, instrumentation, device, device_after) ==
    Call("resolve_instrumentation_component",
         [skip_auto_install |-> a.skip_auto_install,
          instrumentation |-> instrumentation,
          device |-> device, device_after |-> device_after],
         resolve_component(a, instrumentation, device, device_after), FALSE)

NextCalls ==
    \/ \E line \in PhaseInputs : CallParsePhaseEvent(line)
    \/ \E n \in 0..MaxStreamed :
          \E lines \in [1..n -> StreamedLines], keyword \in StreamKeywords :
             CallStream(lines, keyword)
    \/ \E skip \in BOOLEAN, instrumentation \in RequestedComponents,
          device \in Devices, device_after \in {NoDevice, InstalledDevice} :
          CallResolve([skip_auto_install |-> skip, extra_arg_ok |-> TRUE],
                      instrumentation, device, device_after)
    \/ \E payload \in SessionPayloads : CallCaptureSession(payload)
    \/ \E candidate \in PackageNames : CallNormalizePackageName(candidate)
    \/ \E fallback \in {None, <<"a">>}, done_flags \in DoneFlagLists :
          \E truncate \in [Range(done_flags) -> BOOLEAN],
             echo \in [Range(done_flags) -> BOOLEAN] :
             CallSignalCompletion(fallback, done_flags, truncate, echo)
    \/ \E value \in Names, fallback \in Fallbacks :
          CallSanitizeCacheName(value, fallback)

SpecCalls == InitCalls /\ [][NextCalls]_vars

-----------------------------------------------------------------------------
(* Properties *)

Last(seq) == seq[Len(seq)]

\* a line was taken from the stream and its iteration of the loop has run
LineObserved == observed' = observed + 1

\* package, a ready flag and a done flag are all known in context c
AllKnown(c) ==
    /\ c.package # None
    /\ c.ready_flags # <<>>
    /\ c.done_flags # <<>>

\* read_ready_payload was called in this step
PayloadRead == Len(effects'.reads) = Len(effects.reads) + 1

\* the capture completed in this step
CaptureFired == ~ctx.capture_completed /\ ctx'.capture_completed

\* C1, as stated: the capture-handshake transition (payload read, screenshot,
\* done signal, capture_completed := TRUE) fires if and only if, after some
\* observed line, the package, a ready flag and a done flag are all known:
\* a line after which the three are known leaves the capture completed, and
\* the capture completes only after such a line.
C1_FiresIffAllKnown ==
    [][LineObserved =>
          /\ AllKnown(ctx') => ctx'.capture_completed
          /\ CaptureFired => AllKnown(ctx')]_vars

\* C1, amended: after an observed line the payload is read if and only if the
\* capture has not completed and the package, a ready flag and a done flag
\* are all known; and the capture completes in that iteration if and only if
\* that read returned a non-empty payload and neither the screenshot nor the
\* done signal raised.
C1_FiresIffAllKnownAndPayload ==
    [][LineObserved =>
          /\ PayloadRead <=> (~ctx.capture_completed /\ AllKnown(ctx'))
          /\ CaptureFired <=>
                (PayloadRead /\ Last(effects'.reads).payload # None
                    /\ pc' # "raised")]_vars

\* C1 witness: the three were known, the first payload read came back empty
\* and the capture did not fire; a later line's read succeeded and it fired.
C1_Witness ==
    /\ pc = "stream"
    /\ ctx.capture_completed
    /\ Len(effects.reads) = 2
    /\ effects.reads[1].payload = None
    /\ effects.reads[2].payload # None

\* C2: within one session the capture is performed at most once: never more
\* than one screenshot, and once capture_completed is TRUE no later line
\* reads a payload, takes a screenshot or writes a done flag, and
\* capture_completed stays TRUE until the attempt ends.
C2_CaptureAtMostOnce ==
    /\ [](Len(effects.shots) <= 1)
    /\ [][(ctx.capture_completed /\ pc # "start") =>
             /\ ctx'.capture_completed
             /\ effects'.reads = effects.reads
             /\ effects'.shots = effects.shots
             /\ effects'.signals = effects.signals]_vars

\* C2 witness: the capture completed and a later line was observed while the
\* package, the ready flags and the done flags were still known.
C2_Witness ==
    /\ ctx.capture_completed
    /\ AllKnown(ctx)
    /\ Len(effects.reads) = 1
    /\ effects.reads[1].line < observed

\* C3: whatever calls are made on one HarnessContext, in whatever order, each
\* one-shot message class (system-crash guidance, missing-instrumentation
\* guidance, phase timeline, unresolved-package warning) is printed at most
\* once.
C3_OneShotMessages ==
    \A class \in DOMAIN ctx.printed : ctx.printed[class] <= 1

\* C3 witness: every class has been printed once, and the last call, a
\* repeated maybe_emit_system_crash_guidance, printed nothing.
C3_Witness ==
    /\ \A class \in DOMAIN ctx.printed : ctx.printed[class] = 1
    /\ last_call.op = "maybe_emit_system_crash_guidance"
    /\ ~last_call.printed

\* the crash-triggered retries main has made
RECURSIVE CrashRetries(_)
CrashRetries(log) ==
    IF log = <<>> THEN 0
    ELSE (IF Head(log) = "crash" THEN 1 ELSE 0) + CrashRetries(Tail(log))

\* C4: main starts an attempt on account of a system crash only when no
\* crash retry has been used in this run, the attempt saw a system crash and
\* wait_for_activity_manager reported the service reachable; so a run has at
\* most one crash-triggered retry; and when the wait fails main starts no
\* further attempt and returns the last, failing, exit code.
C4_CrashRetry ==
    /\ [](CrashRetries(attempts) <= 1)
    /\ [][(attempts' # attempts /\ Last(attempts') = "crash") =>
             /\ CrashRetries(attempts) < 1
             /\ ctx.system_crash_detected
             /\ am_reachable']_vars
    /\ [][(pc = "am_wait" /\ ~am_reachable') =>
             /\ pc' = "done"
             /\ attempts' = attempts
             /\ main_result' = Some(last_exit_code)
             /\ last_exit_code # 0]_vars

\* C4 witness: the crash-triggered retry was made, the retried attempt saw a
\* system crash too, and main stopped with a failing exit code.
C4_Witness ==
    /\ pc = "done"
    /\ attempts = <<"initial", "crash">>
    /\ ctx.system_crash_detected
    /\ system_crash_attempts = 1
    /\ main_result # None
    /\ main_result # Some(0)

\* C5: when a failed attempt saw the instrumentation missing, auto-install is
\* not skipped and main has not attempted one, main runs the auto-install;
\* when it succeeds main starts a new attempt and the crash-retry budget is
\* untouched, otherwise it goes on to the crash check; and a system crash in
\* an attempt after the install retry still gets its crash retry when none
\* has been used.
C5_AutoInstallRetry ==
    /\ [][(/\ pc = "returned"
           /\ exit_code # Some(0)
           /\ ctx.missing_instrumentation_detected
           /\ ~args.skip_auto_install
           /\ ~auto_install_attempted) => pc' = "auto_install"]_vars
    /\ [][pc = "auto_install" =>
             IF auto_installed'
             THEN /\ pc' = "start"
                  /\ attempts' = Append(attempts, "install")
                  /\ system_crash_attempts' = system_crash_attempts
             ELSE /\ pc' = "crash_check"
                  /\ attempts' = attempts]_vars
    /\ [][(/\ pc = "crash_check"
           /\ ctx.system_crash_detected
           /\ CrashRetries(attempts) = 0
           /\ Last(attempts) = "install") =>
             (pc' = "am_wait" /\ system_crash_attempts = 0)]_vars

\* C5 witness: the retry after the auto-install crashed the system and was
\* itself retried on account of the crash.
C5_Witness ==
    attempts = <<"initial", "install", "crash">>

\* C6: an attempt returns 0 only with the capture completed, main returns 0
\* only then, and a child that exits with status 0 before the capture
\* completed makes the attempt return 1.
C6_ZeroOnlyIfCaptured ==
    /\ exit_code = Some(0) => ctx.capture_completed
    /\ main_result = Some(0) => ctx.capture_completed
    /\ (pc = "returned" /\ return_code = Some(0) /\ ~ctx.capture_completed)
          => exit_code = Some(1)

\* C6 witness: the child exited with status 0 without a capture and the
\* attempt returned 1.
C6_Witness ==
    /\ pc = "returned"
    /\ return_code = Some(0)
    /\ ~ctx.capture_completed
    /\ AllKnown(ctx)
    /\ exit_code = Some(1)

\* the failures of an attempt other than a non-zero status of the child
OtherFailures ==
    {"invalid-extra-arg", "resolution-failure", "target-not-installed",
     "launch-failure", "startup-timeout", "instrumentation-timeout",
     "unexpected-termination", "no-capture"}

C8_VirtualizationSkip ==
    (pc = "returned" /\ outcome = "resolution-failure" /\ virtualization)
        => (exit_code = Some(0) /\ ctx.capture_completed)

\* C9: HarnessStartTimeout is raised only while no line has been received,
\* and the attempt that ends on it has killed the child and returns 1.
C9_StartTimeoutBeforeFirstLine ==
    outcome = "startup-timeout" =>
        /\ observed = 0
        /\ child.state # "running"
        /\ exit_code = Some(1)

\* C9 witness: neither a line nor the end of the stream arrived, the child
\* was killed and the attempt returned 1.
C9_Witness ==
    /\ pc = "returned"
    /\ outcome = "startup-timeout"
    /\ emitted = 0
    /\ child.state = "killed"
    /\ exit_code = Some(1)

\* C10: every attempt that launched its child eventually returns, whatever
\* the child does.
C10_AttemptReturns ==
    (pc = "stream") ~> (pc \in {"returned", "raised"})

IsPrefix(a, b) ==
    Len(a) <= Len(b) /\ SubSeq(b, 1, Len(a)) = a

\* C11: while the generator runs and when it has ended on the sentinel, the
\* lines the consumer has yielded, followed by the lines waiting in the
\* queue, are a prefix of the lines the child wrote; every yielded line was
\* counted once, and the context is the result of observe_line on the
\* yielded lines in that order.
C11_ObservedInOrder ==
    pc \in {"stream", "wait"} =>
        /\ IsPrefix(consumed \o queued_lines(queue), produced)
        /\ Len(consumed) = observed
        /\ ctx = ObserveAll(HarnessContext(None), consumed)

\* C11 witness: three lines, each different from the one before, have been
\* yielded.
C11_Witness ==
    /\ Len(consumed) = 3
    /\ consumed[1] # consumed[2]
    /\ consumed[2] # consumed[3]
    /\ consumed = produced

\* C12, as stated: once the child's output has closed and the loop has ended
\* on the sentinel, every line the child produced has been observed.
C12_ClosedStreamAllObserved ==
    (pc = "wait" /\ ~child.stdout_open) => consumed = produced

\* the sentinel is in the queue only as its last item
SentinelLast(q) ==
    \A i \in 1..Len(q) : q[i] = None => i = Len(q)

\* C12, amended: the reader puts the sentinel exactly once, as its last put
\* and after every line it put, whether the stream ended or reading failed;
\* the loop ends without a timeout only by taking the sentinel, and has then
\* observed every line the reader read: every line the child produced when
\* reading did not fail, a prefix of them when it did; and once the child's
\* output is closed the loop eventually ends.
C12_SentinelEndsLoop ==
    /\ [](pc = "stream" =>
             /\ SentinelLast(queue)
             /\ reader_done <=> (queue # <<>> /\ Last(queue) = None))
    /\ [](pc = "wait" =>
             /\ reader_done
             /\ queue = <<>>
             /\ IsPrefix(consumed, produced)
             /\ ~read_failed => (consumed = produced /\ ~child.stdout_open))
    /\ [][(pc = "stream" /\ pc' = "wait") =>
             (queue # <<>> /\ Head(queue) = None /\ consumed' = consumed)]_vars
    /\ (~child.stdout_open) ~> (pc # "stream")

\* C12 witness: reading failed after the first of two lines, the sentinel
\* followed that line, and the loop ended having observed only it.
C12_Witness ==
    /\ pc = "wait"
    /\ read_failed
    /\ Len(produced) = 2
    /\ Len(consumed) = 1
    /\ ~child.stdout_open

\* the non-empty trimmed paths the ready-flag lines among `lines` announce
RECURSIVE AnnouncedReady(_)
AnnouncedReady(lines) ==
    IF lines = <<>> THEN <<>>
    ELSE (IF Head(lines).ready # None /\ strip(Head(lines).ready[1]) # <<>>
          THEN <<strip(Head(lines).ready[1])>> ELSE <<>>)
            \o AnnouncedReady(Tail(lines))

\* the first occurrence of each element of seq, in order
FirstOccurrences(seq) ==
    LET first(i) == \A j \in 1..(i - 1) : seq[j] # seq[i]
        F[i \in 0..Len(seq)] ==
            IF i = 0 THEN <<>>
            ELSE IF first(i) THEN Append(F[i - 1], seq[i]) ELSE F[i - 1]
    IN  F[Len(seq)]

\* C13: after any sequence of lines, ready_flags holds each announced
\* non-empty path once, in the order of first announcement; a line never
\* removes or reorders a path, and announcing a known path changes nothing.
C13_ReadyFlagsFirstSeen ==
    /\ [](ctx.ready_flags = FirstOccurrences(AnnouncedReady(consumed)))
    /\ [][IsPrefix(ctx.ready_flags, ctx'.ready_flags)]_vars
    /\ [][(/\ consumed' # consumed
           /\ Last(consumed').ready # None
           /\ strip(Last(consumed').ready[1]) \in Range(ctx.ready_flags))
             => ctx'.ready_flags = ctx.ready_flags]_vars

\* C13 witness: r, s and again r (with a leading blank) were announced, and
\* ready_flags is r, s.
C13_Witness ==
    /\ AnnouncedReady(consumed) = << <<"r">>, <<"s">>, <<"r">> >>
    /\ consumed[3].ready = Some(<<" ", "r">>)
    /\ ctx.ready_flags = << <<"r">>, <<"s">> >>

\* the paths each done-flag announcement of SpecFlags names
ExpectedDone(text) ==
    CASE text = <<"d">> -> << <<"d">> >>
      [] text = <<"d", ",", " ", "e">> -> << <<"d">>, <<"e">> >>
      [] text = <<"e", ",", ",", "d", " ">> -> << <<"e">>, <<"d">> >>
      [] text = <<",">> -> <<>>

\* the done flags after `lines`: those of the latest announcement
RECURSIVE LatestDone(_)
LatestDone(lines) ==
    IF lines = <<>> THEN <<>>
    ELSE IF Last(lines).done # None THEN ExpectedDone(Last(lines).done[1])
    ELSE LatestDone(SubSeq(lines, 1, Len(lines) - 1))

\* C14: after any sequence of lines, done_flags is exactly the list of
\* trimmed, non-empty, comma-separated paths of the latest done-flag
\* announcement, in announced order; a line without an announcement leaves
\* done_flags unchanged.
C14_DoneFlagsLatest ==
    /\ [](ctx.done_flags = LatestDone(consumed))
    /\ [][(consumed' # consumed /\ Last(consumed').done = None)
             => ctx'.done_flags = ctx.done_flags]_vars

\* C14 witness: "d, e" was announced, then "e,,d ", then a line without an
\* announcement; done_flags is e, d.
C14_Witness ==
    /\ Len(consumed) = 3
    /\ consumed[1].done = Some(<<"d", ",", " ", "e">>)
    /\ consumed[2].done = Some(<<"e", ",", ",", "d", " ">>)
    /\ consumed[3].done = None
    /\ ctx.done_flags = << <<"e">>, <<"d">> >>

\* C15: parse_phase_event never raises, and returns an event exactly for a
\* payload that is a JSON object with event harness_phase, non-empty string
\* type, component and operation and an attempt that parses as an integer.
C15_ParsePhaseEventTotal ==
    last_call.op = "parse_phase_event" =>
        /\ ~last_call.raised
        /\ last_call.result # None <=>
              LET p == last_call.arg.phase
              IN  /\ p # None
                  /\ p[1].kind = "object"
                  /\ p[1].event = "harness_phase"
                  /\ p[1].type # ""
                  /\ p[1].component # ""
                  /\ p[1].operation # ""
                  /\ p[1].attempt \in
                        {JsonInt(1), JsonStr(<<"2">>), JsonStr(<<" ", "1">>),
                         JsonStr(<<"1", "2">>)}

\* the characters sanitize_cache_name keeps
Legal(ch) == ch \in {"a", "-"}

\* C16: sanitize_cache_name applied to its own result returns that result,
\* with or without the fallback of the first call; and an input that is
\* empty or has no character that survives, with no usable fallback, gives
\* "document".
C16_SanitizeIdempotent ==
    last_call.op = "sanitize_cache_name" =>
        LET value == last_call.arg.value
            fallback == last_call.arg.fallback
            result == last_call.result
        IN  /\ sanitize_cache_name(result, None) = result
            /\ sanitize_cache_name(result, fallback) = result
            /\ ((\A i \in 1..Len(value) : ~Legal(value[i]))
                   /\ fallback \in {None, Some(<<"/">>), Some(<<>>)})
                  => result = Document

\* C16 witness: the input "_/." has only illegal characters and separators
\* and no fallback, and the result is "document".
C16_Witness ==
    /\ last_call.op = "sanitize_cache_name"
    /\ last_call.arg = [value |-> <<"_", "/", ".">>, fallback |-> None]
    /\ last_call.result = Document

\* the page number of the file name for page index 0, 1, 2, 3
ExpectedPage(i) ==
    CASE i = 0 -> <<"0", "0", "0", "1">>
      [] i = 1 -> <<"0", "0", "0", "2">>
      [] i = 2 -> <<"0", "0", "0", "3">>
      [] i = 3 -> <<"0", "0", "0", "4">>

\* C17: a session of package, ready-flag and done-flag lines whose ready
\* payload is an object with documentId d and pageIndex i, without pageNumber
\* and sanitizedDocumentId, writes exactly one file, named
\* sanitize_cache_name(d) + "_page" + (i + 1 on four digits) + ".png", and
\* ends with capture_completed.
C17_ScreenshotFileName ==
    (/\ last_call.op = "capture_session"
     /\ last_call.arg.kind = "object"
     /\ last_call.arg.sanitizedDocumentId = None
     /\ last_call.arg.pageNumber = None) =>
        /\ ~last_call.raised
        /\ last_call.result.capture_completed
        /\ last_call.result.shots =
              << sanitize_cache_name(last_call.arg.documentId[1], None)
                   \o <<"_", "p", "a", "g", "e">>
                   \o ExpectedPage(last_call.arg.pageIndex[1])
                   \o <<".", "p", "n", "g">> >>

\* C17 witness: documentId "D 1" and pageIndex 0 gave D_1_page0001.png.
C17_Witness ==
    /\ last_call.op = "capture_session"
    /\ last_call.arg = DocPayload(<<"D", " ", "1">>, 0)
    /\ last_call.result.capture_completed
    /\ last_call.result.shots =
          << <<"D", "_", "1", "_", "p", "a", "g", "e", "0", "0", "0", "1",
               ".", "p", "n", "g">> >>

\* C18: resolve_instrumentation_component never returns a component that
\* contains the wildcard character "*", for any requested identifier and any
\* device listing
C18_NoWildcardReturned ==
    last_call.op = "resolve_instrumentation_component"
        => ~Contains(last_call.result, "*")

\* the components of the listings the resolver consulted that match the
\* wildcard-to-regex expansion of the requested package/runner
ListedMatches(call) ==
    LET device == IF resolve_instrumentation_component_once(
                         call.device,
                         strip(partition(strip(call.instrumentation), "/").head),
                         strip(partition(strip(call.instrumentation), "/").tail)) # None
                     \/ call.skip_auto_install
                  THEN call.device
                  ELSE call.device_after
    IN  {component \in Range(device.scoped) \cup Range(device.listing) :
            GlobMatch(strip(call.instrumentation), component)}

RECURSIVE ValidPhaseEvents(_)
ValidPhaseEvents(lines) ==
    IF lines = <<>> THEN <<>>
    ELSE parse_phase_event(Head(lines)) \o ValidPhaseEvents(Tail(lines))

PhaseKey(event) == <<event.component, event.operation, event.attempt>>

RECURSIVE GroupSizes(_)
GroupSizes(groups) ==
    IF groups = <<>> THEN 0
    ELSE Len(Head(groups).events) + GroupSizes(Tail(groups))

\* C20: after any sequence of observed lines there is exactly one group per
\* (component, operation, attempt) key of the valid phase events, each group
\* holds the events of its key in arrival order, and the group sizes sum to
\* the length of phase_events, which holds the valid events in arrival order
C20_PhaseGroups ==
    LET events == ValidPhaseEvents(consumed)
        groups == ctx.phase_attempt_events
    IN  pc = "stream" =>
          /\ ctx.phase_events = events
          /\ {groups[i].key : i \in 1..Len(groups)}
                 = {PhaseKey(events[i]) : i \in 1..Len(events)}
          /\ \A i, j \in 1..Len(groups) : groups[i].key = groups[j].key => i = j
          /\ \A i \in 1..Len(groups) :
                 groups[i].events
                    = SelectSeq(events, LAMBDA e : PhaseKey(e) = groups[i].key)
          /\ GroupSizes(groups) = Len(ctx.phase_events)

\* two attempts of one (component, operation): two groups, the first with two
\* events, the second ending in the complete event
C20_Witness ==
    LET groups == ctx.phase_attempt_events
    IN  /\ pc = "stream"
        /\ Len(ctx.phase_events) = 4
        /\ Len(groups) = 2
        /\ groups[1].key = <<"Foo", "bar", 1>>
        /\ groups[2].key = <<"Foo", "bar", 2>>
        /\ Len(groups[1].events) = 2
        /\ groups[2].events[Len(groups[2].events)].type = "complete"

CrashFlags(c) ==
    <<c.system_crash_detected, c.process_crash_detected,
      c.missing_instrumentation_detected>>

\* C21: the three detection flags are independent and set once: after any
\* sequence of observed lines each flag is true exactly if some observed line
\* contained its signature, whatever the other signatures and flags
C21_FlagsFollowSignatures ==
    pc = "stream" =>
        CrashFlags(ctx)
           = <<\E i \in 1..Len(consumed) : consumed[i].crashed,
               \E i \in 1..Len(consumed) : consumed[i].proc,
               \E i \in 1..Len(consumed) : consumed[i].missing>>

\* the entries the dispatcher is to record for a line of TestpointFeed
ExpectedEntries(line) ==
    IF line = TestpointLine("ready_for_screenshot", Some(<<"p">>))
    THEN << <<"ready_for_screenshot", Some(<<"p">>)>> >>
    ELSE IF line = TestpointLine("ui_loaded", None)
    THEN << <<"ui_loaded", None>> >>
    ELSE IF line = TestpointText(<<" ", "cache_ready", " ", ":", " ">>)
    THEN << <<"cache_ready", None>> >>
    ELSE <<>>

RECURSIVE ExpectedEvents(_)
ExpectedEvents(lines) ==
    IF lines = <<>> THEN <<>>
    ELSE ExpectedEntries(Head(lines)) \o ExpectedEvents(Tail(lines))

\* the callbacks registered on `c` for `point` or for every marker
RegisteredFor(c, point) ==
    {c.testpoint_callbacks[i].callback :
        i \in {k \in 1..Len(c.testpoint_callbacks) :
                  c.testpoint_callbacks[k].point = point}}
      \cup Range(c.testpoint_any_callbacks)

\* C22: the dispatcher's event list holds one (marker, detail) entry per
\* observed line with a known marker, in line order; observing such a line
\* notifies each callback registered for the marker or for every marker once,
\* and observing a line with an unknown marker appends nothing, notifies
\* nobody and raises nothing
C22_TestpointDispatch ==
    /\ [](pc = "stream" => ctx.testpoint_events = ExpectedEvents(consumed))
    /\ [][consumed' # consumed =>
             LET line == last_call'.arg
                 notified == last_call'.result
             IN  /\ ~last_call'.raised
                 /\ \A i, j \in 1..Len(notified) :
                        notified[i] = notified[j] => i = j
                 /\ Range(notified)
                       = IF ExpectedEntries(line) = <<>> THEN {}
                         ELSE RegisteredFor(ctx, ExpectedEntries(line)[1][1])]_vars

\* a known marker was observed after an unknown one, with a callback for the
\* marker and one for every marker: one entry, two notifications
C22_Witness ==
    /\ pc = "stream"
    /\ last_call.op = "observe_line"
    /\ consumed = <<TestpointLine("unknown_marker", None),
                    TestpointLine("ready_for_screenshot", Some(<<"p">>))>>
    /\ Len(ctx.testpoint_events) = 1
    /\ Len(last_call.result) = 2

\* a session nothing was observed on
NewSession(c) ==
    /\ ~c.capture_completed
    /\ c.ready_flags = <<>>
    /\ c.done_flags = <<>>
    /\ CrashFlags(c) = <<FALSE, FALSE, FALSE>>
    /\ ~c.sanitized_package_warning_emitted
    /\ ~c.system_crash_guidance_emitted
    /\ ~c.missing_instrumentation_guidance_emitted
    /\ ~c.phase_guidance_emitted
    /\ c.phase_events = <<>>
    /\ c.phase_attempt_events = <<>>
    /\ c.testpoint_events = <<>>

\* C23: every attempt main starts, the first and each retry, begins on a new
\* session, whatever the session of the previous attempt held
C23_NewSessionPerAttempt ==
    [][pc = "start" /\ pc' # "start" => NewSession(ctx')]_vars

\* a retry after a system crash has started, and its session has no crash
C23_Witness ==
    /\ pc = "stream"
    /\ Len(attempts) = 2
    /\ attempts[2] = "crash"
    /\ observed = 0
    /\ exit_code = None
    /\ NewSession(ctx)

\* the terminal failure paths of an attempt that ran the streaming loop
TerminalFailures ==
    {"startup-timeout", "instrumentation-timeout", "unexpected-termination",
     "non-zero-exit", "no-capture"}

\* C24: when an attempt has returned on a terminal failure path, the crash
\* guidance has been printed exactly once if a system crash was observed and
\* the install guidance exactly once if the missing instrumentation was
\* observed
C24_GuidanceOncePerFailure ==
    (pc = "returned" /\ outcome \in TerminalFailures) =>
        /\ ctx.system_crash_detected => ctx.printed.crash = 1
        /\ ctx.missing_instrumentation_detected => ctx.printed.missing = 1

\* C25: when an attempt has returned on a terminal failure path, the startup
\* diagnostics (liveness of the candidate packages, process table, tail of the
\* device log) and the native crash artifacts have been collected
C25_DiagnosticsOnEveryFailure ==
    (pc = "returned" /\ outcome \in TerminalFailures) =>
        /\ "startup-diagnostics" \in Range(effects.diagnostics)
        /\ \E reason \in {"system-server-crash", "process-crash", "startup-timeout",
                           "instrumentation-timeout", "unexpected-termination"} :
               \E i \in 1..Len(effects.diagnostics) :
                  effects.diagnostics[i] = "native:" \o reason

\* C26: a call of stream_instrumentation_output with abort_on_system_crash
\* enabled, on a stream with a line that sets system_crash_detected, raises
\* HarnessSystemCrash at that line: the lines up to it have been echoed and
\* classified, and no later line was
C26_AbortOnSystemCrash ==
    (/\ last_call.op = "stream_instrumentation_output"
     /\ last_call.arg.abort_on_system_crash = Some(TRUE)
     /\ \E i \in 1..Len(last_call.arg.lines) : last_call.arg.lines[i].crashed)
        => LET lines == last_call.arg.lines
               first == CHOOSE i \in 1..Len(lines) :
                           lines[i].crashed /\ \A j \in 1..(i - 1) : ~lines[j].crashed
           IN  /\ last_call.result.exception = "HarnessSystemCrash"
               /\ last_call.result.echoed = SubSeq(lines, 1, first)
               /\ last_call.result.system_crash_detected

\* what an announced text of PackageTexts is to resolve to; None when it
\* cannot be validated or resolved, and for a blank announcement
ExpectedPackage(text) ==
    IF text = <<"b">> THEN <<"b">>
    ELSE IF text = <<" ", "a", ".", "b", " ">> THEN <<"a", ".", "b">>
    ELSE IF text = <<"a", "*", "b">> THEN <<"a", "b">>
    ELSE None

Announced(lines) == [i \in 1..Len(lines) |-> lines[i].pkg[1]]

\* the package of a session that started with `fallback` after `texts`
RECURSIVE LatestPackage(_, _)
LatestPackage(fallback, texts) ==
    IF texts = <<>> THEN fallback
    ELSE IF ExpectedPackage(texts[Len(texts)]) # None
    THEN ExpectedPackage(texts[Len(texts)])
    ELSE LatestPackage(fallback, SubSeq(texts, 1, Len(texts) - 1))

\* C27: after any sequence of package announcements the package is the last
\* announced name that could be validated or resolved, or else the package
\* the session started with; the candidate set has grown by the resolved
\* names only; and the warning was printed once if some announced name could
\* not be resolved, and never otherwise
C27_PackageAnnouncements ==
    LET texts == Announced(consumed)
        initial == HarnessContext(<<"a">>)
    IN  pc = "stream" =>
          /\ ctx.package = LatestPackage(initial.package, texts)
          /\ ctx.candidate_packages
                = initial.candidate_packages
                    \cup {ExpectedPackage(texts[i]) :
                             i \in {k \in 1..Len(texts) :
                                       ExpectedPackage(texts[k]) # None}}
          /\ ctx.printed.pkgwarn
                = IF \E i \in 1..Len(texts) :
                        strip(texts[i]) # <<>> /\ ExpectedPackage(texts[i]) = None
                  THEN 1 ELSE 0

\* a valid name replaced the package, then two names that cannot be resolved
\* kept it and printed one warning
C27_Witness ==
    /\ pc = "stream"
    /\ Len(consumed) = 3
    /\ Announced(consumed) = << <<"b">>, <<"?">>, <<"*", "?">> >>
    /\ ctx.package = <<"b">>
    /\ ctx.printed.pkgwarn = 1

\* C28: signal_completion signals every done-flag path of the session, in
\* list order: a path whose truncation succeeds is truncated, a path whose
\* truncation fails is written with "done" instead, and a failed truncation
\* of one path does not keep the paths after it from being signalled (a path
\* that can neither be truncated nor written is the only one left out)
C28_EveryDoneFlagSignalled ==
    (pc = "called" /\ last_call.op = "signal_completion"
        /\ last_call.arg.package # None) =>
        LET flags == last_call.arg.done_flags
            truncate == last_call.arg.truncate
            echo == last_call.arg.echo
            writable == SelectSeq(flags, LAMBDA flag : truncate[flag] \/ echo[flag])
            written == last_call.result
        IN  /\ Len(written) = Len(writable)
            /\ \A i \in 1..Len(writable) :
                  /\ written[i].flag = writable[i]
                  /\ written[i].how
                        = IF truncate[writable[i]] THEN "truncate" ELSE "echo"

\* the ready flags whose read gives content, in the order of `flags`
Readable(flags, cat) ==
    SelectSeq(flags, LAMBDA flag : cat[flag].kind \notin {"error", "empty"})

\* whether the session waits for a ready payload
HandshakePending(c) ==
    ~c.capture_completed /\ c.package # None /\ c.ready_flags # <<>>
        /\ c.done_flags # <<>>

C30_PayloadContentNeverFails ==
    (pc = "called" /\ last_call.op = "capture_session"
        /\ last_call.arg.kind # "object") =>
        /\ ~last_call.raised
        /\ last_call.result.capture_completed
        /\ last_call.result.shots =
              << Document \o <<"_", "p", "a", "g", "e", "0", "0", "0", "1",
                               ".", "p", "n", "g">> >>

\* C31: in one run of main the Gradle install is executed at most once,
\* counting the resolver's and main's invocations over all attempts, and
\* never when skip_auto_install is set
C31_AutoInstallAtMostOnce ==
    /\ installs <= 1
    /\ args.skip_auto_install => installs = 0

\* what the queries of one pass of the resolver print, in query order
QueryOutputs(device, instrumentation) ==
    (IF strip(partition(strip(instrumentation), "/").head) # <<>>
     THEN <<device.scoped>> ELSE <<>>) \o <<device.listing>>

\* the components the queries of the pass list, in the order discovered
Discovered(device, instrumentation) ==
    LET outputs == QueryOutputs(device, instrumentation)
    IN  IF Len(outputs) = 2 THEN outputs[1] \o outputs[2] ELSE outputs[1]

\* whether a component of the pass matches the requested package and runner
MatchesRequest(device, instrumentation) ==
    LET package == strip(partition(strip(instrumentation), "/").head)
        runner == strip(partition(strip(instrumentation), "/").tail)
    IN  \E i \in 1..Len(QueryOutputs(device, instrumentation)) :
           LET components == QueryOutputs(device, instrumentation)[i]
           IN  \/ expected_match(components, package, runner) # None
               \/ package_match(components, package, runner) # None

\* the pass whose result the resolver returns: the one before the install
\* step if it lists a component or no install step is made
DecidingDevice(call) ==
    IF Discovered(call.device, call.instrumentation) # <<>> \/ call.skip_auto_install
    THEN call.device
    ELSE call.device_after

FirstSeenKeys(c) ==
    [i \in 1..Len(c.phase_attempt_events) |-> c.phase_attempt_events[i].key]

\* C33 as stated: the timelines are printed one per group, in the order in
\* which the keys were first seen
C33_TimelineFirstSeenOrder ==
    ctx.phase_guidance_emitted => ctx.phase_timeline = FirstSeenKeys(ctx)

\* C33 amended: the timelines are printed one per (component, operation,
\* attempt) group, in ascending order of the key
C33_TimelineSortedByKey ==
    ctx.phase_guidance_emitted =>
        /\ Len(ctx.phase_timeline) = Len(ctx.phase_attempt_events)
        /\ Range(ctx.phase_timeline) = Range(FirstSeenKeys(ctx))
        /\ \A i \in 1..(Len(ctx.phase_timeline) - 1) :
              key_before(ctx.phase_timeline[i], ctx.phase_timeline[i + 1])

\* Foo.baz was seen before Foo.bar, and the timeline of Foo.bar was printed
\* first
C33_Witness ==
    /\ ctx.phase_guidance_emitted
    /\ FirstSeenKeys(ctx) = << <<"Foo", "baz", 1>>, <<"Foo", "bar", 1>> >>
    /\ ctx.phase_timeline = << <<"Foo", "bar", 1>>, <<"Foo", "baz", 1>> >>

\* C34: the callbacks a dispatch invokes are invoked in the order in which
\* they were registered, also when the registrations for one point and for
\* every point were interleaved (callbacks are numbered as registered)
C34_RegistrationOrder ==
    (pc = "stream" /\ last_call.op = "observe_line") =>
        \A i \in 1..(Len(last_call.result) - 1) :
            last_call.result[i] < last_call.result[i + 1]

\* whether `name` is not empty and made of the characters `chars` only
MadeOf(name, chars) ==
    name # <<>> /\ \A i \in 1..Len(name) : name[i] \in chars

\* C35 as stated: a name made only of alphanumerics, ".", "_" and "-" is kept
\* unchanged by normalize_package_name, and only names outside that grammar
\* are rewritten or rejected
C35_HyphenNamesKept ==
    (pc = "called" /\ last_call.op = "normalize_package_name") =>
        (MadeOf(last_call.arg, {"a", "b", ".", "_", "-"})
            <=> (last_call.result # None /\ last_call.result = last_call.arg))

\* C35 amended: a name made only of alphanumerics, "." and "_" is kept
\* unchanged; every other name, one with "-" included, is rewritten to a name
\* of that grammar or rejected
C35_StrictNamesKept ==
    (pc = "called" /\ last_call.op = "normalize_package_name") =>
        /\ MadeOf(last_call.arg, {"a", "b", ".", "_"})
              <=> (last_call.result # None /\ last_call.result = last_call.arg)
        /\ last_call.result # None
              => MadeOf(last_call.result, {"a", "b", ".", "_"})

\* a-a lost its hyphen
C35_Witness ==
    /\ pc = "called"
    /\ last_call.op = "normalize_package_name"
    /\ last_call.arg = <<"a", "-", "a">>
    /\ last_call.result = <<"a", "a">>

\* C36: the hand-off queue is bounded: the reader waits when the queue is
\* full, so however many lines the child writes, the lines enqueued and not
\* yet consumed stay below that number; here, the queue never holds all
\* MaxProduced lines of the child at once
C36_QueueBounded ==
    Len(queued_lines(queue)) < MaxProduced

\* C37: when the startup-timeout path has run, the session has observed no
\* line: the three detection flags are false, the phase history is empty, and
\* the native crash artifacts are collected for the reason "startup-timeout",
\* never "system-server-crash"
C37_StartupTimeoutSeesNothing ==
    (pc = "returned" /\ outcome = "startup-timeout") =>
        /\ observed = 0
        /\ ~ctx.system_crash_detected
        /\ ~ctx.process_crash_detected
        /\ ~ctx.missing_instrumentation_detected
        /\ ctx.phase_events = <<>>
        /\ ctx.phase_attempt_events = <<>>
        /\ "native:startup-timeout" \in Range(effects.diagnostics)
        /\ "native:system-server-crash" \notin Range(effects.diagnostics)

\* the startup timeout of the first attempt fired after the child had written
\* a line that the loop had not taken yet
C37_Witness ==
    /\ pc = "returned"
    /\ outcome = "startup-timeout"
    /\ attempts = <<"initial">>
    /\ emitted = 1
    /\ observed = 0
    /\ "native:startup-timeout" \in Range(effects.diagnostics)

\* the retry budgets main has consumed: the auto-install and the crash
\* retries
BudgetConsumed ==
    (IF auto_install_attempted /\ ~args.skip_auto_install THEN 1 ELSE 0)
        + system_crash_attempts

\* the retries main may still make: the auto-install and the crash retries
BudgetLeft ==
    (IF auto_install_attempted THEN 0 ELSE 1)
        + (max_system_crash_retries - system_crash_attempts)

\* the positions of main and of the attempt, later ones lower; a retry goes
\* back up to "start" only from "auto_install" and "am_wait"
Position ==
    CASE pc = "am_wait" -> 8
      [] pc = "auto_install" -> 7
      [] pc = "start" -> 6
      [] pc = "stream" -> 5
      [] pc = "wait" -> 4
      [] pc \in {"returned", "raised"} -> 3
      [] pc = "crash_check" -> 2
      [] OTHER -> 0

\* what is left of the run: lexicographic in BudgetLeft and Position
Remaining == BudgetLeft * 10 + Position

\* C38: main makes at most three attempts: every attempt after the first has
\* consumed one of the two retry budgets (the auto-install, the crash retry),
\* and every step that moves main or the attempt to another position lowers
\* what is left of the run, so main returns when every attempt and every
\* recovery wait does
C38_MainTerminates ==
    /\ [](/\ Len(attempts) <= 3
          /\ Len(attempts) - 1 <= BudgetConsumed
          /\ BudgetLeft >= 0)
    /\ [][attempts' # attempts =>
             /\ Len(attempts') = Len(attempts) + 1
             /\ Len(attempts') - 1 <= BudgetConsumed]_vars
    /\ [][pc' # pc => Remaining' < Remaining]_vars

\* main has returned after three attempts
C38_Witness ==
    /\ pc = "done"
    /\ Len(attempts) = 3
    /\ BudgetConsumed = 2
    /\ main_result # None

\* C39: a capture reads the payload, writes the screenshot, signals the done
\* flags and sets capture_completed, in this order: a done flag is written
\* only after a payload was read and the screenshot file written, the capture
\* is completed only after every done flag was signalled, and an error of the
\* screenshot or of a done-flag write leaves capture_completed false
C39_CaptureStepsInOrder ==
    /\ [](effects.shots # <<>> =>
             /\ effects.reads # <<>>
             /\ effects.reads[Len(effects.reads)].payload # None)
    /\ [](effects.signals # <<>> => effects.shots # <<>>)
    /\ []((pc \in {"stream", "wait", "raised"} /\ ctx.capture_completed) =>
             /\ Len(effects.shots) = 1
             /\ [i \in 1..Len(effects.signals) |-> effects.signals[i].flag]
                    = ctx.done_flags)
    /\ [][pc' = "raised" =>
             /\ ~ctx'.capture_completed
             /\ Len(effects'.signals) < Len(ctx'.done_flags)]_vars

\* the screenshot was written, the done-flag write failed, and the capture is
\* not completed
C39_Witness ==
    /\ pc = "raised"
    /\ Len(effects.shots) = 1
    /\ effects.signals = <<>>
    /\ ctx.done_flags # <<>>
    /\ ~ctx.capture_completed

\* the text of a completion-signal announcement names no path
NamesNoPath(text) ==
    \A i \in 1..Len(text) : text[i] \in {",", " "}

\* C40 as stated: once package, a ready flag and a done flag are all known,
\* they remain known after every line observed before the capture completes
C40_HandshakeNeverBackwards ==
    [][(AllKnown(ctx) /\ ~ctx.capture_completed) => AllKnown(ctx')]_vars

\* C40 amended: the package and the ready flags, once known, remain known
\* after every observed line, and the three are no longer all known only
\* after a completion-signal announcement that names no path
C40_BackwardsOnlyOnEmptyAnnouncement ==
    [][consumed' # consumed =>
          LET line == consumed'[Len(consumed')]
          IN  /\ ctx.package # None => ctx'.package # None
              /\ Len(ctx.ready_flags) <= Len(ctx'.ready_flags)
              /\ SubSeq(ctx'.ready_flags, 1, Len(ctx.ready_flags)) = ctx.ready_flags
              /\ (AllKnown(ctx) /\ ~AllKnown(ctx')) =>
                    /\ line.done # None
                    /\ NamesNoPath(line.done[1])
                    /\ ctx'.done_flags = <<>>]_vars

\* a ready flag and a done flag were known with the package, and the
\* announcement "completion signal at ," left no done flag
C40_Witness ==
    /\ pc = "stream"
    /\ Len(consumed) = 3
    /\ consumed[1] = ReadyLine(<<"r">>)
    /\ consumed[2] = DoneLine(<<"d">>)
    /\ consumed[3] = DoneLine(<<",">>)
    /\ ctx.ready_flags = << <<"r">> >>
    /\ ctx.done_flags = <<>>
    /\ ~ctx.capture_completed

====
